---- MODULE Spec2Model ----
(***************************************************************************)
(* The root multi-store (package rootmulti): a set of sub-stores mounted   *)
(* by name, committed together under one version, with the per-version     *)
(* CommitInfo, the latest version and the pending prune heights kept in    *)
(* the shared DB.  Every operation of Store is an operator from an         *)
(* instance record to an instance record; the actions apply them to the    *)
(* variables, which are the fields of Store.                               *)
(***************************************************************************)
EXTENDS Integers, Sequences, FiniteSets, TLC

\* ------------------------------------------------------------------ bounds
\* Commits stop once the multi-store or a sub-store version reaches MaxVersion.
MaxVersion == 3
\* The same bound under the pruning specification.
MaxPruneVersion == 4
\* Commits stop once this many heights are pending.
MaxPending == 3
\* The version bound under the ordering, rollback and snapshot specifications.
MaxOrderVersion == 2
MaxRollbackVersion == 3
MaxSnapshotVersion == 2
\* SetInitialVersion is called with 1..MaxInitialVersion.
MaxInitialVersion == 2
\* The version bound under the branching specification.
MaxBranchVersion == 2
\* The version bound under the query specification.
MaxQueryVersion == 2
\* The version bound under the store-kinds specification.
MaxKindsVersion == 2
MaxPersistVersion == 2
MaxPublishVersion == 2
MaxDeleteVersion == 2
MaxNodesHeight == 1
MaxRetainVersion == 4
MaxRetainPending == 3
MaxAddedVersion == 3
MaxFlushVersion == 3
\* The version bound under the upgrade specification.
MaxUpgradeVersion == 2
\* The version bound under the versioned-branch specification.
MaxViewVersion == 2
\* The version bound under the load specification.
MaxLoadVersion == 2
\* The heights restored at under the restore specification.
MaxRestoreHeight == 2
\* The version bound under the export specification.
MaxExportVersion == 2
\* The number of store keys that are offered for mounting.
MaxKeys == 3
\* The version bound under the query-path specification.
MaxPathVersion == 2

\* ------------------------------------------------------------- store types
StoreTypeIAVL == "iavl"
StoreTypeTransient == "transient"
StoreTypeMemory == "memory"

\* Store names in lexical order (the order of sort.Slice on Name()).
NameOrder == <<"a", "b", "m", "t">>

\* The mount sets of the model: name -> store type.
MountAMT ==
  [n \in {"a", "m", "t"} |->
     IF n = "t" THEN StoreTypeTransient
     ELSE IF n = "m" THEN StoreTypeMemory ELSE StoreTypeIAVL]
MountAT ==
  [n \in {"a", "t"} |-> IF n = "t" THEN StoreTypeTransient ELSE StoreTypeIAVL]
MountMT ==
  [n \in {"m", "t"} |-> IF n = "t" THEN StoreTypeTransient ELSE StoreTypeMemory]
MountAM ==
  [n \in {"a", "m"} |-> IF n = "m" THEN StoreTypeMemory ELSE StoreTypeIAVL]
MountAB == [n \in {"a", "b"} |-> StoreTypeIAVL]
MountABT ==
  [n \in {"a", "b", "t"} |-> IF n = "t" THEN StoreTypeTransient ELSE StoreTypeIAVL]

\* PruningOptions the model runs under.  PruneNothing is the default of
\* NewStore; Prune12 is {KeepRecent: 1, Interval: 2, KeepEvery: 0}.
PruneNothing == [KeepRecent |-> 0, KeepEvery |-> 0, Interval |-> 0]
Prune12 == [KeepRecent |-> 1, KeepEvery |-> 0, Interval |-> 2]
Prune13 == [KeepRecent |-> 1, KeepEvery |-> 0, Interval |-> 3]
PruneKeepEvery == [KeepRecent |-> 0, KeepEvery |-> 2, Interval |-> 1]

\* ------------------------------------------------------------------ helpers
Range(s) == { s[i] : i \in 1..Len(s) }

MaxOf(S) == CHOOSE x \in S : \A y \in S : y <= x

MinOf(S) == CHOOSE x \in S : \A y \in S : x <= y

EmptyFn == [x \in {} |-> 0]

\* The names of S in ascending lexical order.
SortByName(S) == SelectSeq(NameOrder, LAMBDA n : n \in S)

\* Every order in which a Go map with key set S can be ranged over.
IterOrders(S) ==
  { o \in [1..Cardinality(S) -> S] : \A i, j \in 1..Cardinality(S) : o[i] = o[j] => i = j }

\* --------------------------------------------------- sub-store tree contents
\* A tree is the sequence of its export nodes (post-order).  Leaves have
\* height 0 and a non-nil value, inner nodes a nil value.
NilBytes == "nil"
EmptyBytes == ""

Leaf(k, v, ver) == [key |-> k, value |-> v, height |-> 0, version |-> ver]
Inner(k, h, ver) == [key |-> k, value |-> NilBytes, height |-> h, version |-> ver]

EmptyTree == <<>>
Tree1 == << Leaf("k1", "v1", 1) >>
Tree2 == << Leaf("k1", EmptyBytes, 2), Leaf("k2", "v2", 2), Inner("k2", 1, 2) >>

\* The contents a write can leave a sub-store in.
Contents == { EmptyTree, Tree1 }
\* The contents written before a snapshot: Tree2 has a leaf with an empty value.
SnapshotContents == { Tree2 }

\* ------------------------------------------------------------------ hashes
\* Hashes are collision-free: a hash is the data it was computed over.
NilHash == <<>>
TreeHash(tree) == << [tree |-> tree] >>
MerkleRoot(leaves) == << [merkle |-> leaves] >>

EmptyCommitID == [version |-> 0, hash |-> NilHash]

\* ------------------------------------------------------------- CommitInfo
\* lastCommitInfo = nil, and an absent s/<v> record.
NoInfo == [version |-> -1, storeInfos |-> <<>>]
EmptyCommitInfo == [version |-> 0, storeInfos |-> <<>>]

GetVersion(c) == IF c = NoInfo THEN 0 ELSE c.version

\* CommitInfo.toMap: name -> commit hash, a later StoreInfo replacing an earlier.
toMap(ci) ==
  [n \in { ci.storeInfos[i].name : i \in 1..Len(ci.storeInfos) } |->
     LET last == MaxOf({ i \in 1..Len(ci.storeInfos) : ci.storeInfos[i].name = n })
     IN ci.storeInfos[last].commitId.hash]

\* CommitInfo.Hash: the Merkle root over hash(name || commit hash), by name.
Hash(ci) ==
  IF Len(ci.storeInfos) = 0 THEN NilHash
  ELSE LET m == toMap(ci)
           names == SortByName(DOMAIN m)
       IN MerkleRoot([i \in 1..Len(names) |-> [name |-> names[i], hash |-> m[names[i]]]])

\* CommitInfo.CommitID
CommitID(ci) == [version |-> ci.version, hash |-> Hash(ci)]

\* ---------------------------------------------------------------- the DB
\* s/latest is absent.
NoKey == -1

\* binary.BigEndian.PutUint64 of a height below 2^32: four zero bytes, then
\* the four low bytes.
PutUint64(h) ==
  << 0, 0, 0, 0, (h \div 16777216) % 256, (h \div 65536) % 256, (h \div 256) % 256, h % 256 >>

Uint64(bz, off) ==
  bz[off + 5] * 16777216 + bz[off + 6] * 65536 + bz[off + 7] * 256 + bz[off + 8]

RECURSIVE flushPruningHeights(_)
flushPruningHeights(pruneHeights) ==
  IF pruneHeights = <<>> THEN <<>>
  ELSE PutUint64(Head(pruneHeights)) \o flushPruningHeights(Tail(pruneHeights))

\* getPruningHeights: ok is FALSE on "no pruned heights found".
getPruningHeights(db) ==
  LET bz == db.pruneHeights
  IN [ok |-> Len(bz) # 0,
      heights |-> [i \in 1..(Len(bz) \div 8) |-> Uint64(bz, 8 * (i - 1))]]

GetLatestVersion(db) == IF db.latest = NoKey THEN 0 ELSE db.latest

\* getCommitInfo: ok is FALSE on "no commit info found".
\* Bytes at s/<ver> that are not an encoded CommitInfo.
Malformed == [version |-> -1, storeInfos |-> << >>]

\* CommitInfo.Unmarshal: an error for bytes that are no CommitInfo.
Unmarshal(bz) ==
  IF bz = Malformed THEN [ok |-> FALSE, cInfo |-> NoInfo] ELSE [ok |-> TRUE, cInfo |-> bz]

\* A read of s/<ver> that takes a missing or malformed record for an empty
\* CommitInfo.
getCommitInfoOrEmpty(db, ver) ==
  IF ver \in DOMAIN db.commitInfo /\ Unmarshal(db.commitInfo[ver]).ok
  THEN Unmarshal(db.commitInfo[ver])
  ELSE [ok |-> TRUE, cInfo |-> EmptyCommitInfo]

getCommitInfo(db, ver) ==
  IF ver \in DOMAIN db.commitInfo
  THEN Unmarshal(db.commitInfo[ver])
  ELSE [ok |-> FALSE, cInfo |-> NoInfo]

\* The shared DB after NewStore: no metadata, every sub-store namespace empty.
NewDB ==
  [latest |-> NoKey,
   commitInfo |-> EmptyFn,
   pruneHeights |-> <<>>,
   trees |-> [n \in Range(NameOrder) |-> EmptyFn]]

\* -------------------------------------------------------------- sub-stores
\* A loaded sub-store: its type, the version it is at, the tree saved at
\* that version, its working tree and its initial version.  The saved
\* versions of an IAVL sub-store live in db.trees[name].
NewSubStore(typ) ==
  [typ |-> typ, last |-> 0, saved |-> EmptyTree, work |-> EmptyTree, initialVersion |-> 0]

\* iavl.Store.LastCommitID; transient and memory stores return CommitID{}.
SubLastCommitID(st) ==
  IF st.typ = StoreTypeIAVL
  THEN [version |-> st.last, hash |-> TreeHash(st.saved)]
  ELSE EmptyCommitID

\* The version a sub-store Commit(bumpVersion) saves.
SubCommitVersion(st, bumpVersion) ==
  IF ~bumpVersion THEN st.last
  ELSE IF st.last = 0 /\ st.initialVersion > 0 THEN st.initialVersion
  ELSE st.last + 1

\* Commit(false) re-commits the version a versioned sub-store is at; a tree
\* that was never saved has none, and its Commit(false) does not return.
SubCommitReturns(st, bumpVersion) ==
  st.typ = StoreTypeIAVL /\ ~bumpVersion => st.last # 0

\* Commit(bumpVersion) of one sub-store: the store afterwards.
SubCommit(st, bumpVersion) ==
  IF st.typ = StoreTypeIAVL
  THEN [st EXCEPT !.last = SubCommitVersion(st, bumpVersion), !.saved = st.work]
  ELSE IF st.typ = StoreTypeTransient
  THEN [st EXCEPT !.work = EmptyTree]
  ELSE st

\* The saved versions of an IAVL sub-store after its Commit(bumpVersion).
SubCommitVersions(st, vers, bumpVersion) ==
  LET v == SubCommitVersion(st, bumpVersion)
  IN [x \in DOMAIN vers \cup {v} |-> IF x = v THEN st.work ELSE vers[x]]

\* iavl.LoadStore at CommitID id: version 0 loads the latest saved version.
iavlLoadStore(vers, id, initialVersion) ==
  LET v == IF id.version = 0 THEN MaxOf(DOMAIN vers \cup {0}) ELSE id.version
      tree == IF v \in DOMAIN vers THEN vers[v] ELSE EmptyTree
  IN [ok |-> id.version = 0 \/ id.version \in DOMAIN vers,
      store |-> [typ |-> StoreTypeIAVL, last |-> v, saved |-> tree, work |-> tree,
                 initialVersion |-> initialVersion]]

\* DeleteVersions(versions...): the saved versions left.  A version that is
\* not saved is skipped, and the slice handed over is left as it is.
DeleteVersions(vers, versions) ==
  [x \in DOMAIN vers \ Range(versions) |-> vers[x]]

\* ------------------------------------------------------------ the instance
\* NewStore, then MountStoreWithDB for every store of mounts, then SetPruning.
NewStore(mounts, opts) ==
  [db |-> NewDB,
   lastCommitInfo |-> NoInfo,
   pruningOpts |-> opts,
   storesParams |-> mounts,
   stores |-> EmptyFn,
   pruneHeights |-> <<>>,
   initialVersion |-> 0,
   earliestVersion |-> 0]

\* Store.LastCommitID
LastCommitID(rs) ==
  IF rs.lastCommitInfo = NoInfo
  THEN [version |-> GetLatestVersion(rs.db), hash |-> NilHash]
  ELSE CommitID(rs.lastCommitInfo)

\* loadCommitStoreFromParams, by store type.
loadCommitStoreFromParams(rs, name, id, typ) ==
  IF typ = StoreTypeIAVL
  THEN iavlLoadStore(rs.db.trees[name], id, 0)
  ELSE [ok |-> TRUE, store |-> NewSubStore(typ)]

\* Store.getCommitID
getCommitID(cInfo, name) ==
  LET hits == { i \in 1..Len(cInfo.storeInfos) : cInfo.storeInfos[i].name = name }
  IN IF hits = {} THEN EmptyCommitID ELSE cInfo.storeInfos[MaxOf(hits)].commitId

\* A load that takes every sub-store at its latest version, whatever s/<ver> says.
loadVersionLatest(rs, ver) ==
  LET got == IF ver # 0 THEN getCommitInfo(rs.db, ver)
             ELSE [ok |-> TRUE, cInfo |-> EmptyCommitInfo]
      cInfo == got.cInfo
      loaded == [n \in DOMAIN rs.storesParams |->
                   loadCommitStoreFromParams(rs, n, EmptyCommitID, rs.storesParams[n])]
      ph == getPruningHeights(rs.db)
  IN IF ~got.ok \/ \E n \in DOMAIN loaded : ~loaded[n].ok
     THEN [ok |-> FALSE, rs |-> rs]
     ELSE [ok |-> TRUE,
           rs |-> [rs EXCEPT !.lastCommitInfo = cInfo,
                             !.stores = [n \in DOMAIN loaded |-> loaded[n].store],
                             !.pruneHeights = IF ph.ok /\ Len(ph.heights) > 0
                                              THEN ph.heights ELSE @]]

\* Store.loadVersion without upgrades.
loadVersion(rs, ver) ==
  LET got == IF ver # 0 THEN getCommitInfo(rs.db, ver)
             ELSE [ok |-> TRUE, cInfo |-> EmptyCommitInfo]
      cInfo == got.cInfo
      loaded == [n \in DOMAIN rs.storesParams |->
                   loadCommitStoreFromParams(rs, n, getCommitID(cInfo, n), rs.storesParams[n])]
      ph == getPruningHeights(rs.db)
  IN IF ~got.ok \/ \E n \in DOMAIN loaded : ~loaded[n].ok
     THEN [ok |-> FALSE, rs |-> rs]
     ELSE [ok |-> TRUE,
           rs |-> [rs EXCEPT !.lastCommitInfo = cInfo,
                             !.stores = [n \in DOMAIN loaded |-> loaded[n].store],
                             !.pruneHeights = IF ph.ok /\ Len(ph.heights) > 0
                                              THEN ph.heights ELSE @]]

\* The (key, value) entries a tree holds.
Entries(tree) == { << tree[i].key, tree[i].value >> : i \in { j \in 1..Len(tree) : tree[j].height = 0 } }

\* Set(key, value) on a working tree.
TreeSet(tree, k, v) ==
  SelectSeq(tree, LAMBDA node : ~(node.height = 0 /\ node.key = k)) \o << Leaf(k, v, 0) >>

\* A deleteKVStore that leaves the last key the iterator yields.
deleteKVStoreButLast(tree) ==
  LET leaves == { i \in 1..Len(tree) : tree[i].height = 0 }
  IN IF leaves = {} THEN << >> ELSE << tree[MaxOf(leaves)] >>

\* deleteKVStore: every key the iterator yields is deleted.
deleteKVStore(tree) == SelectSeq(tree, LAMBDA node : FALSE)

\* A move that leaves out the entries whose value is empty.
RECURSIVE moveKVStoreDataNonEmpty(_, _)
moveKVStoreDataNonEmpty(oldTree, newTree) ==
  IF oldTree = << >> THEN newTree
  ELSE LET node == Head(oldTree)
       IN moveKVStoreDataNonEmpty(Tail(oldTree),
            IF node.height = 0 /\ node.value # EmptyBytes
            THEN TreeSet(newTree, node.key, node.value) ELSE newTree)

\* moveKVStoreData, the copy: every entry of the old store is Set on the new.
RECURSIVE moveKVStoreData(_, _)
moveKVStoreData(oldTree, newTree) ==
  IF oldTree = << >> THEN newTree
  ELSE LET node == Head(oldTree)
       IN moveKVStoreData(Tail(oldTree),
            IF node.height = 0 THEN TreeSet(newTree, node.key, node.value) ELSE newTree)

\* The mounts of the binary that renames the store oldName to newName.
RenamedMounts(mounts, oldName, newName) ==
  [n \in (DOMAIN mounts \ {oldName}) \cup {newName} |->
     IF n = newName THEN mounts[oldName] ELSE mounts[n]]

\* StoreUpgrades: the names added, the names deleted, and for a new name the
\* name it is renamed from.
NoUpgrades == [added |-> {}, deleted |-> {}, renamed |-> EmptyFn]

IsAdded(upgrades, name) == name \in upgrades.added
IsDeleted(upgrades, name) == name \in upgrades.deleted
RenamedFrom(upgrades, name) ==
  IF name \in DOMAIN upgrades.renamed THEN upgrades.renamed[name] ELSE ""

\* Store.loadVersion with upgrades: the instance afterwards and, for every
\* store that was renamed, the temporary store loaded from the old name as
\* the move left it.
loadVersionUpgrades(rs, ver, upgrades) ==
  LET got == IF ver # 0 THEN getCommitInfo(rs.db, ver)
             ELSE [ok |-> TRUE, cInfo |-> EmptyCommitInfo]
      cInfo == got.cInfo
      loaded == [n \in DOMAIN rs.storesParams |->
                   IF IsAdded(upgrades, n) /\ rs.storesParams[n] = StoreTypeIAVL
                   THEN iavlLoadStore(rs.db.trees[n], getCommitID(cInfo, n), ver + 1)
                   ELSE loadCommitStoreFromParams(rs, n, getCommitID(cInfo, n),
                                                  rs.storesParams[n])]
      moved == { n \in DOMAIN rs.storesParams :
                   ~IsDeleted(upgrades, n) /\ RenamedFrom(upgrades, n) # "" }
      oldStores == [n \in moved |->
                      loadCommitStoreFromParams(rs, RenamedFrom(upgrades, n),
                         getCommitID(cInfo, RenamedFrom(upgrades, n)), rs.storesParams[n])]
      ph == getPruningHeights(rs.db)
  IN IF \/ ~got.ok
        \/ \E n \in DOMAIN loaded : ~loaded[n].ok
        \/ \E n \in moved : ~oldStores[n].ok
     THEN [ok |-> FALSE, rs |-> rs, oldStores |-> EmptyFn]
     ELSE [ok |-> TRUE,
           rs |-> [rs EXCEPT !.lastCommitInfo = cInfo,
                             !.stores = [n \in DOMAIN loaded |->
                                IF IsDeleted(upgrades, n)
                                THEN [loaded[n].store EXCEPT !.work = deleteKVStore(@)]
                                ELSE IF n \in moved
                                THEN [loaded[n].store EXCEPT
                                        !.work = moveKVStoreData(oldStores[n].store.work, @)]
                                ELSE loaded[n].store],
                             !.pruneHeights = IF ph.ok /\ Len(ph.heights) > 0
                                              THEN ph.heights ELSE @],
           oldStores |-> [n \in moved |->
                            [oldStores[n].store EXCEPT !.work = deleteKVStore(@)]]]

\* Store.loadVersion with upgrades that rename oldName to newName: the
\* instance afterwards and the temporary store loaded from the old name as
\* the move left it.
loadVersionAndUpgrade(rs, ver, oldName, newName) ==
  LET r == loadVersionUpgrades(rs, ver,
             [NoUpgrades EXCEPT !.renamed = [n \in {newName} |-> oldName]])
  IN [ok |-> r.ok, rs |-> r.rs,
      oldStore |-> IF r.ok THEN r.oldStores[newName] ELSE NewSubStore(StoreTypeIAVL)]

\* A new binary on the same DB: NewStore, the mounts with oldName renamed to
\* newName, SetPruning.
Upgraded(rs, oldName, newName) ==
  [NewStore(RenamedMounts(rs.storesParams, oldName, newName), rs.pruningOpts)
     EXCEPT !.db = rs.db]

\* Store.LoadLatestVersion
LoadLatestVersion(rs) == loadVersion(rs, GetLatestVersion(rs.db))

\* A flush that writes s/<version> and s/pruneheights and leaves s/latest.
flushMetadataStale(rs, version, cInfo) ==
  [rs EXCEPT !.db.commitInfo =
               IF cInfo = NoInfo THEN @
               ELSE [v \in DOMAIN @ \cup {version} |-> IF v = version THEN cInfo ELSE @[v]],
             !.db.pruneHeights = flushPruningHeights(rs.pruneHeights)]

\* Store.flushMetadata: one batch with s/<version>, s/latest and s/pruneheights.
flushMetadata(rs, version, cInfo) ==
  [rs EXCEPT !.db.commitInfo =
               IF cInfo = NoInfo THEN @
               ELSE [v \in DOMAIN @ \cup {version} |-> IF v = version THEN cInfo ELSE @[v]],
             !.db.latest = version,
             !.db.pruneHeights = flushPruningHeights(rs.pruneHeights)]

\* commitStores that stops at the first transient store instead of skipping it.
commitStoresBreak(version, storeMap, trees, bumpVersion, order) ==
  LET stop == { i \in 1..Len(order) : storeMap[order[i]].typ = StoreTypeTransient }
      cut == IF stop = {} THEN order
             ELSE SubSeq(order, 1, MinOf(stop))
      kept == SelectSeq(cut, LAMBDA n : storeMap[n].typ # StoreTypeTransient)
  IN [info |-> [version |-> version,
                storeInfos |-> [i \in 1..Len(kept) |->
                   [name |-> kept[i],
                    commitId |-> SubLastCommitID(SubCommit(storeMap[kept[i]], bumpVersion))]]],
      stores |-> [n \in DOMAIN storeMap |->
                   IF n \in Range(cut) THEN SubCommit(storeMap[n], bumpVersion) ELSE storeMap[n]],
      trees |-> [n \in DOMAIN trees |->
                   IF n \in Range(cut) /\ storeMap[n].typ = StoreTypeIAVL
                   THEN SubCommitVersions(storeMap[n], trees[n], bumpVersion) ELSE trees[n]],
      calls |-> [n \in DOMAIN storeMap |-> Cardinality({ i \in 1..Len(cut) : cut[i] = n })]]

\* commitStores that lists the StoreInfos in ascending order of the names.
commitStoresSorted(version, storeMap, trees, bumpVersion, order) ==
  LET kept == SelectSeq(SortByName(Range(order)),
                        LAMBDA n : storeMap[n].typ # StoreTypeTransient)
  IN [info |-> [version |-> version,
                storeInfos |-> [i \in 1..Len(kept) |->
                   [name |-> kept[i],
                    commitId |-> SubLastCommitID(SubCommit(storeMap[kept[i]], bumpVersion))]]],
      stores |-> [n \in DOMAIN storeMap |->
                   IF n \in Range(order) THEN SubCommit(storeMap[n], bumpVersion) ELSE storeMap[n]],
      trees |-> [n \in DOMAIN trees |->
                   IF n \in Range(order) /\ storeMap[n].typ = StoreTypeIAVL
                   THEN SubCommitVersions(storeMap[n], trees[n], bumpVersion) ELSE trees[n]],
      calls |-> [n \in DOMAIN storeMap |-> Cardinality({ i \in 1..Len(order) : order[i] = n })]]

\* commitStores: Commit on every store in the order the map is ranged over;
\* a StoreInfo for every store that is not transient, in that order.
commitStores(version, storeMap, trees, bumpVersion, order) ==
  LET kept == SelectSeq(order, LAMBDA n : storeMap[n].typ # StoreTypeTransient)
  IN [info |-> [version |-> version,
                storeInfos |-> [i \in 1..Len(kept) |->
                   [name |-> kept[i],
                    commitId |-> SubLastCommitID(SubCommit(storeMap[kept[i]], bumpVersion))]]],
      stores |-> [n \in DOMAIN storeMap |->
                   IF n \in Range(order) THEN SubCommit(storeMap[n], bumpVersion) ELSE storeMap[n]],
      trees |-> [n \in DOMAIN trees |->
                   IF n \in Range(order) /\ storeMap[n].typ = StoreTypeIAVL
                   THEN SubCommitVersions(storeMap[n], trees[n], bumpVersion) ELSE trees[n]],
      calls |-> [n \in DOMAIN storeMap |-> Cardinality({ i \in 1..Len(order) : order[i] = n })]]

\* Store.PruneStores
PruneStores(rs, clearStorePruningHeights, pruningHeights) ==
  LET heights == IF clearStorePruningHeights THEN pruningHeights \o rs.pruneHeights
                 ELSE pruningHeights
  IN IF Len(rs.pruneHeights) = 0 THEN rs
     ELSE [rs EXCEPT
             !.db.trees = [n \in DOMAIN @ |->
                 IF n \in DOMAIN rs.stores /\ rs.stores[n].typ = StoreTypeIAVL
                 THEN DeleteVersions(@[n], heights) ELSE @[n]],
             !.earliestVersion = IF Len(heights) > 0 THEN heights[Len(heights)] ELSE @,
             !.pruneHeights = IF clearStorePruningHeights THEN <<>> ELSE @]

\* The heights PruneStores hands to DeleteVersions (none when it returns early).
PrunedBy(rs, clearStorePruningHeights, pruningHeights) ==
  IF Len(rs.pruneHeights) = 0 THEN <<>>
  ELSE IF \A n \in DOMAIN rs.stores : rs.stores[n].typ # StoreTypeIAVL THEN <<>>
  ELSE IF clearStorePruningHeights THEN pruningHeights \o rs.pruneHeights
  ELSE pruningHeights

\* A version selection that increments whatever bumpVersion says.
CommitVersionBumped(rs, bumpVersion) ==
  LET c == rs.lastCommitInfo
  IN IF GetVersion(c) = 0 /\ rs.initialVersion > 1 THEN rs.initialVersion
     ELSE GetVersion(c) + 1

\* A version selection that never looks at initialVersion.
CommitVersionNoInitial(rs, bumpVersion) ==
  LET c == rs.lastCommitInfo
  IN IF bumpVersion THEN GetVersion(c) + 1 ELSE GetVersion(c)

\* The version Store.Commit commits at.
CommitVersion(rs, bumpVersion) ==
  LET c == rs.lastCommitInfo
  IN IF GetVersion(c) = 0 /\ rs.initialVersion > 1 THEN rs.initialVersion
     ELSE IF bumpVersion THEN GetVersion(c) + 1
     ELSE GetVersion(c)

\* previousHeight of Store.Commit: set only on the bumpVersion branch.
PreviousHeight(rs, bumpVersion) ==
  LET c == rs.lastCommitInfo
  IN IF GetVersion(c) = 0 /\ rs.initialVersion > 1 THEN 0
     ELSE IF bumpVersion THEN GetVersion(c)
     ELSE 0

\* A scheduling that never looks at KeepEvery.
CommitScheduledAll(rs, bumpVersion, order) ==
  LET version == CommitVersion(rs, bumpVersion)
      previousHeight == PreviousHeight(rs, bumpVersion)
      cs == commitStores(version, rs.stores, rs.db.trees, bumpVersion, order)
      opts == rs.pruningOpts
      pruneHeight == previousHeight - opts.KeepRecent
  IN [rs EXCEPT !.lastCommitInfo = cs.info,
                !.stores = cs.stores,
                !.db.trees = cs.trees,
                !.pruneHeights =
                  IF opts.Interval > 0 /\ opts.KeepRecent < previousHeight
                  THEN Append(@, pruneHeight) ELSE @]

\* Store.Commit up to the pruning: the sub-stores committed, lastCommitInfo
\* set, the prune height scheduled.
CommitScheduled(rs, bumpVersion, order) ==
  LET version == CommitVersion(rs, bumpVersion)
      previousHeight == PreviousHeight(rs, bumpVersion)
      cs == commitStores(version, rs.stores, rs.db.trees, bumpVersion, order)
      opts == rs.pruningOpts
      pruneHeight == previousHeight - opts.KeepRecent
  IN [rs EXCEPT !.lastCommitInfo = cs.info,
                !.stores = cs.stores,
                !.db.trees = cs.trees,
                !.pruneHeights =
                  IF /\ opts.Interval > 0
                     /\ opts.KeepRecent < previousHeight
                     /\ (opts.KeepEvery = 0 \/ pruneHeight % opts.KeepEvery # 0)
                  THEN Append(@, pruneHeight) ELSE @]

\* Store.Commit: the instance afterwards and the CommitID returned.
\* flushMetadata is deferred: it runs last, with the CommitInfo taken when
\* the defer statement ran and the pending heights as PruneStores left them.
Commit(rs, bumpVersion, order) ==
  LET version == CommitVersion(rs, bumpVersion)
      s1 == CommitScheduled(rs, bumpVersion, order)
      prunes == s1.pruningOpts.Interval > 0 /\ version % s1.pruningOpts.Interval = 0
      s2 == IF prunes THEN PruneStores(s1, TRUE, <<>>) ELSE s1
  IN [rs |-> flushMetadata(s2, version, s1.lastCommitInfo),
      id |-> [version |-> version, hash |-> Hash(s2.lastCommitInfo)]]

\* The heights Store.Commit hands to DeleteVersions.
CommitPruned(rs, bumpVersion, order) ==
  LET version == CommitVersion(rs, bumpVersion)
      s1 == CommitScheduled(rs, bumpVersion, order)
  IN IF s1.pruningOpts.Interval > 0 /\ version % s1.pruningOpts.Interval = 0
     THEN PrunedBy(s1, TRUE, <<>>) ELSE <<>>

\* Store.SetInitialVersion
SetInitialVersion(rs, version) ==
  [rs EXCEPT !.initialVersion = version,
             !.stores = [n \in DOMAIN @ |->
                 IF @[n].typ = StoreTypeIAVL THEN [@[n] EXCEPT !.initialVersion = version]
                 ELSE @[n]]]

\* iavl.Store.LoadVersionForOverwriting(target): the versions above target
\* are dropped and the tree is left at target.
LoadVersionForOverwriting(st, vers, target) ==
  [ok |-> target \in DOMAIN vers,
   store |-> IF target \in DOMAIN vers
             THEN [st EXCEPT !.last = target, !.saved = vers[target], !.work = vers[target]]
             ELSE st,
   vers |-> IF target \in DOMAIN vers
            THEN [x \in { y \in DOMAIN vers : y <= target } |-> vers[x]]
            ELSE vers]

\* A rollback that leaves the metadata as it was: no flush before the reload.
RollbackToVersionUnflushed(rs, target, order, commitOrder) ==
  IF target <= 0 THEN [ok |-> FALSE, rs |-> rs]
  ELSE
    LET iavl == SelectSeq(order, LAMBDA n : rs.stores[n].typ = StoreTypeIAVL)
        failing == { i \in 1..Len(iavl) : target \notin DOMAIN rs.db.trees[iavl[i]] }
        done == IF failing = {} THEN Range(iavl)
                ELSE { iavl[i] : i \in 1..(MinOf(failing) - 1) }
        s1 == [rs EXCEPT
                 !.stores = [n \in DOMAIN @ |->
                     IF n \in done
                     THEN LoadVersionForOverwriting(@[n], rs.db.trees[n], target).store
                     ELSE @[n]],
                 !.db.trees = [n \in DOMAIN @ |->
                     IF n \in done
                     THEN LoadVersionForOverwriting(rs.stores[n], @[n], target).vers
                     ELSE @[n]]]
        cs == commitStores(target, s1.stores, s1.db.trees, FALSE, commitOrder)
        s2 == [s1 EXCEPT !.lastCommitInfo = cs.info, !.stores = cs.stores,
                         !.db.trees = cs.trees]
    IN IF failing # {} THEN [ok |-> FALSE, rs |-> s1]
       ELSE LoadLatestVersion(s2)

\* A rollback that flushes the metadata for the target before it rejects it.
RollbackToVersionFlushFirst(rs, target, order, commitOrder) ==
  [ok |-> FALSE, rs |-> flushMetadata(rs, target, rs.lastCommitInfo)]

\* Store.RollbackToVersion.  The IAVL sub-stores are rolled back in the order
\* the map is ranged over, up to the first that fails; commitStores ranges
\* over the map again, in commitOrder.
RollbackToVersion(rs, target, order, commitOrder) ==
  IF target <= 0 THEN [ok |-> FALSE, rs |-> rs]
  ELSE
    LET iavl == SelectSeq(order, LAMBDA n : rs.stores[n].typ = StoreTypeIAVL)
        failing == { i \in 1..Len(iavl) : target \notin DOMAIN rs.db.trees[iavl[i]] }
        done == IF failing = {} THEN Range(iavl)
                ELSE { iavl[i] : i \in 1..(MinOf(failing) - 1) }
        s1 == [rs EXCEPT
                 !.stores = [n \in DOMAIN @ |->
                     IF n \in done
                     THEN LoadVersionForOverwriting(@[n], rs.db.trees[n], target).store
                     ELSE @[n]],
                 !.db.trees = [n \in DOMAIN @ |->
                     IF n \in done
                     THEN LoadVersionForOverwriting(rs.stores[n], @[n], target).vers
                     ELSE @[n]]]
        cs == commitStores(target, s1.stores, s1.db.trees, FALSE, commitOrder)
        s2 == [s1 EXCEPT !.lastCommitInfo = cs.info, !.stores = cs.stores,
                         !.db.trees = cs.trees]
    IN IF failing # {} THEN [ok |-> FALSE, rs |-> s1]
       ELSE LoadLatestVersion(flushMetadata(s2, target, s2.lastCommitInfo))

\* A write through GetKVStore(key): the sub-store's working tree changes.
SetStore(rs, name, tree) == [rs EXCEPT !.stores[name].work = tree]

\* A CommitInfo that lists every loaded sub-store.
buildCommitInfoAll(rs, version) ==
  LET kept == SortByName(DOMAIN rs.stores)
  IN [version |-> version,
      storeInfos |-> [i \in 1..Len(kept) |->
         [name |-> kept[i], commitId |-> SubLastCommitID(rs.stores[kept[i]])]]]

\* Store.buildCommitInfo: the stores by name, the transient ones left out.
buildCommitInfo(rs, version) ==
  LET kept == SortByName({ n \in DOMAIN rs.stores : rs.stores[n].typ # StoreTypeTransient })
  IN [version |-> version,
      storeInfos |-> [i \in 1..Len(kept) |->
         [name |-> kept[i], commitId |-> SubLastCommitID(rs.stores[kept[i]])]]]

\* ------------------------------------------------------ snapshot, restore
MaxInt8 == 127

\* A conversion that keeps the int32 as it is.
Int8Wide(h) == h

\* int8(h) of an int32 h
Int8(h) == ((h + 128) % 256) - 128

\* A byte field on the wire: Protobuf does not tell []byte{} from nil, an
\* empty field is read back as nil.
WireBytes(bz) == IF bz = EmptyBytes THEN NilBytes ELSE bz

\* The SnapshotItem messages as they are read back.
SnapshotStoreItem(name) ==
  [kind |-> "store", name |-> name, key |-> NilBytes, value |-> NilBytes,
   height |-> 0, version |-> 0]

SnapshotIAVLItem(node) ==
  [kind |-> "iavl", name |-> "", key |-> WireBytes(node.key), value |-> WireBytes(node.value),
   height |-> node.height, version |-> node.version]

\* The items Snapshot writes for the stores `names`, in that order.
RECURSIVE ExportStores(_, _, _)
ExportStores(rs, names, height) ==
  IF names = <<>> THEN <<>>
  ELSE LET tree == rs.db.trees[Head(names)][height]
       IN << SnapshotStoreItem(Head(names)) >>
            \o [i \in 1..Len(tree) |-> SnapshotIAVLItem(tree[i])]
            \o ExportStores(rs, Tail(names), height)

\* The stores Snapshot collects, left in the order the map is ranged over.
SnapshotStoresUnsorted(rs, order) ==
  SelectSeq(order, LAMBDA n : rs.stores[n].typ = StoreTypeIAVL)

\* Store.Snapshot, the stores to export: the versioned ones, collected in
\* the order the map is ranged over, then sorted by name.
SnapshotStores(rs, order) ==
  SortByName(Range(SelectSeq(order, LAMBDA n : rs.stores[n].typ = StoreTypeIAVL)))

\* A Snapshot that leaves the height to the Export of the stores.
SnapshotUnchecked(rs, height, order) ==
  LET names == SnapshotStores(rs, order)
      failing == { i \in 1..Len(names) : height \notin DOMAIN rs.db.trees[names[i]] }
      upto == IF failing = {} THEN Len(names) ELSE MinOf(failing) - 1
  IN [ok |-> failing = {}, height |-> height,
      items |-> ExportStores(rs, SubSeq(names, 1, upto), height)]

\* Store.Snapshot: the items written, up to the first store whose Export fails.
Snapshot(rs, height, order) ==
  IF height = 0 \/ height > LastCommitID(rs).version
  THEN [ok |-> FALSE, height |-> height, items |-> <<>>]
  ELSE
    LET names == SnapshotStores(rs, order)
        failing == { i \in 1..Len(names) : height \notin DOMAIN rs.db.trees[names[i]] }
        upto == IF failing = {} THEN Len(names) ELSE MinOf(failing) - 1
    IN [ok |-> failing = {}, height |-> height,
        items |-> ExportStores(rs, SubSeq(names, 1, upto), height)]

\* No importer is open.
NoImporter == [open |-> FALSE, name |-> "", nodes |-> << >>]

\* ImportNode without the key set to empty.
ImportNodeNilKey(item) ==
  [key |-> item.key,
   value |-> IF Int8(item.height) = 0 /\ item.value = NilBytes THEN EmptyBytes ELSE item.value,
   height |-> Int8(item.height),
   version |-> item.version]

\* ImportNode without the leaf value set to empty.
ImportNodeRaw(item) ==
  [key |-> IF item.key = NilBytes THEN EmptyBytes ELSE item.key,
   value |-> item.value,
   height |-> Int8(item.height),
   version |-> item.version]

\* The ExportNode Restore builds from an item: nil key and nil leaf value
\* are set to empty.
ImportNode(item) ==
  [key |-> IF item.key = NilBytes THEN EmptyBytes ELSE item.key,
   value |-> IF Int8(item.height) = 0 /\ item.value = NilBytes THEN EmptyBytes ELSE item.value,
   height |-> Int8(item.height),
   version |-> item.version]

\* importer.Commit: the imported nodes become version `height` of the store.
ImporterCommit(rs, importer, height) ==
  [rs EXCEPT
     !.db.trees[importer.name] = [x \in DOMAIN @ \cup {height} |->
         IF x = height THEN importer.nodes ELSE @[x]],
     !.stores[importer.name] =
         [@ EXCEPT !.last = height, !.saved = importer.nodes, !.work = importer.nodes]]

\* The zero SnapshotItem.
ZeroItem ==
  [kind |-> "none", name |-> "", key |-> NilBytes, value |-> NilBytes,
   height |-> 0, version |-> 0]

\* A lookup that takes any mounted store for a store to import into.
RestoreStoreAny(rs, name) == name \in DOMAIN rs.stores

\* rs.GetStoreByName(name).(*iavl.Store) in Store.Restore: the store is
\* mounted and is a versioned store.
RestoreStore(rs, name) ==
  /\ name \in DOMAIN rs.stores
  /\ rs.stores[name].typ = StoreTypeIAVL

\* The loop of Store.Restore over the items read: rest is what it left
\* unread, item the record it stopped at (the zero record at EOF and on an
\* error).
RECURSIVE RestoreLoop(_, _, _, _)
RestoreLoop(rs, importer, height, items) ==
  IF items = <<>>
  THEN [ok |-> TRUE, rs |-> rs, importer |-> importer, rest |-> << >>, item |-> ZeroItem]
  ELSE
    LET item == Head(items)
        s1 == IF importer.open THEN ImporterCommit(rs, importer, height) ELSE rs
    IN IF item.kind = "store"
       THEN IF \/ ~RestoreStore(s1, item.name)
               \/ DOMAIN s1.db.trees[item.name] # {}
            THEN [ok |-> FALSE, rs |-> s1, importer |-> NoImporter,
                  rest |-> Tail(items), item |-> ZeroItem]
            ELSE RestoreLoop(s1, [open |-> TRUE, name |-> item.name, nodes |-> << >>],
                             height, Tail(items))
       ELSE IF item.kind = "iavl"
       THEN IF ~importer.open \/ item.height > MaxInt8
            THEN [ok |-> FALSE, rs |-> rs, importer |-> NoImporter,
                  rest |-> Tail(items), item |-> ZeroItem]
            ELSE RestoreLoop(rs, [importer EXCEPT !.nodes = Append(@, ImportNode(item))],
                             height, Tail(items))
       ELSE [ok |-> TRUE, rs |-> rs, importer |-> importer,
             rest |-> Tail(items), item |-> item]

\* A Restore that returns the zero record whatever it stopped at.
RestoreZeroItem(rs, height, items) ==
  LET l == RestoreLoop(rs, NoImporter, height, items)
      s1 == IF l.importer.open THEN ImporterCommit(l.rs, l.importer, height) ELSE l.rs
      loaded == LoadLatestVersion(flushMetadata(s1, height, buildCommitInfo(s1, height)))
  IN IF ~l.ok THEN [ok |-> FALSE, rs |-> l.rs, item |-> ZeroItem,
                    read |-> Len(items) - Len(l.rest)]
     ELSE [ok |-> loaded.ok, rs |-> loaded.rs, item |-> ZeroItem,
           read |-> Len(items) - Len(l.rest)]

\* A Restore that returns at once when the stream holds no record.
RestoreSkipEmpty(rs, height, items) ==
  LET l == RestoreLoop(rs, NoImporter, height, items)
      s1 == IF l.importer.open THEN ImporterCommit(l.rs, l.importer, height) ELSE l.rs
      loaded == LoadLatestVersion(flushMetadata(s1, height, buildCommitInfo(s1, height)))
  IN IF items = << >> THEN [ok |-> TRUE, rs |-> rs, item |-> ZeroItem, read |-> 0]
     ELSE IF ~l.ok THEN [ok |-> FALSE, rs |-> l.rs, item |-> ZeroItem,
                         read |-> Len(items) - Len(l.rest)]
     ELSE [ok |-> loaded.ok, rs |-> loaded.rs, item |-> l.item,
           read |-> Len(items) - Len(l.rest)]

\* Store.Restore: read counts the records it consumed.
Restore(rs, height, items) ==
  LET l == RestoreLoop(rs, NoImporter, height, items)
      s1 == IF l.importer.open THEN ImporterCommit(l.rs, l.importer, height) ELSE l.rs
      loaded == LoadLatestVersion(flushMetadata(s1, height, buildCommitInfo(s1, height)))
  IN IF ~l.ok THEN [ok |-> FALSE, rs |-> l.rs, item |-> ZeroItem,
                    read |-> Len(items) - Len(l.rest)]
     ELSE [ok |-> loaded.ok, rs |-> loaded.rs, item |-> l.item,
           read |-> Len(items) - Len(l.rest)]

\* ------------------------------------------------------ cache multi-store
\* The keys and the value written through a sub-store.
Keys == { "k1" }
Value1 == "v1"

\* A cache entry of a branch: nothing buffered, or a deletion.
NoWrite == "nowrite"
Deleted == "deleted"

\* KVStore.Get on a sub-store's working tree: nil when the key is absent.
KVGet(tree, k) ==
  LET hits == { i \in 1..Len(tree) : tree[i].height = 0 /\ tree[i].key = k }
  IN IF hits = {} THEN NilBytes ELSE tree[MinOf(hits)].value

\* KVStore.Delete on a sub-store's working tree.
KVDelete(tree, k) == SelectSeq(tree, LAMBDA node : ~(node.height = 0 /\ node.key = k))

\* KVStore.Set on a sub-store's working tree.
KVSet(tree, k, v) == KVDelete(tree, k) \o << Leaf(k, v, 1) >>

\* No branch was taken, or it was dropped.
NoBranch == [open |-> FALSE, cache |-> EmptyFn, views |-> EmptyFn, version |-> 0]

\* cachemulti.NewFromKVStore: every sub-store handed over is wrapped in a
\* cache of its own, with nothing buffered.
NewFromKVStore(storeNames) ==
  [open |-> TRUE, cache |-> [n \in storeNames |-> [k \in Keys |-> NoWrite]],
   views |-> EmptyFn, version |-> 0]

\* Store.CacheMultiStore: a branch over every loaded sub-store.
CacheMultiStore(rs) == NewFromKVStore(DOMAIN rs.stores)

\* iavl.Store.GetImmutable(version): the tree saved at that version, an
\* error when the store does not hold it.
GetImmutable(vers, version) ==
  IF version \in DOMAIN vers THEN [ok |-> TRUE, tree |-> vers[version]]
  ELSE [ok |-> FALSE, tree |-> EmptyTree]

\* A branch at a version that hands every sub-store over as it is.
CacheMultiStoreWithVersionCurrent(rs, version) ==
  [ok |-> TRUE, branch |-> [NewFromKVStore(DOMAIN rs.stores) EXCEPT !.version = version]]

\* Store.CacheMultiStoreWithVersion: every versioned sub-store is replaced
\* by its immutable view at the version, the others are handed over as they
\* are; an error and no branch when a view cannot be had.
CacheMultiStoreWithVersion(rs, version) ==
  LET iavls == { n \in DOMAIN rs.stores : rs.stores[n].typ = StoreTypeIAVL }
      got == [n \in iavls |-> GetImmutable(rs.db.trees[n], version)]
  IN IF \E n \in iavls : ~got[n].ok
     THEN [ok |-> FALSE, branch |-> NoBranch]
     ELSE [ok |-> TRUE,
           branch |-> [NewFromKVStore(DOMAIN rs.stores) EXCEPT
                         !.views = [n \in iavls |-> got[n].tree],
                         !.version = version]]

\* Get through the branch: the buffered entry, else the value of the store
\* the cache wraps, the immutable view or the parent's sub-store.
BranchGet(b, rs, n, k) ==
  IF b.cache[n][k] = NoWrite
  THEN IF n \in DOMAIN b.views THEN KVGet(b.views[n], k) ELSE KVGet(rs.stores[n].work, k)
  ELSE IF b.cache[n][k] = Deleted THEN NilBytes
  ELSE b.cache[n][k]

\* Set and Delete through the branch: buffered in the sub-store's cache.
BranchSet(b, n, k, v) == [b EXCEPT !.cache[n][k] = v]

BranchDelete(b, n, k) == [b EXCEPT !.cache[n][k] = Deleted]

\* The Write of one sub-store's cache into the parent's sub-store: every
\* buffered entry is applied, key by key.
RECURSIVE CacheWriteKeys(_, _, _)
CacheWriteKeys(entries, tree, keys) ==
  IF keys = {} THEN tree
  ELSE LET k == CHOOSE x \in keys : TRUE
           t == IF entries[k] = NoWrite THEN tree
                ELSE IF entries[k] = Deleted THEN KVDelete(tree, k)
                ELSE KVSet(tree, k, entries[k])
       IN CacheWriteKeys(entries, t, keys \ {k})

CacheWrite(entries, tree) == CacheWriteKeys(entries, tree, Keys)

\* A Write that flushes the branch's own db and none of its sub-stores.
BranchWriteDbOnly(b, rs) == rs

\* cachemulti.Store.Write: the parent after Write on every sub-store.
BranchWrite(b, rs) ==
  [rs EXCEPT !.stores = [n \in DOMAIN @ |->
      IF n \in DOMAIN b.cache
      THEN [@[n] EXCEPT !.work = CacheWrite(b.cache[n], @)]
      ELSE @[n]]]

\* The number of entries the branch has buffered.
Buffered(b) ==
  Cardinality({ e \in (DOMAIN b.cache) \X Keys : b.cache[e[1]][e[2]] # NoWrite })

\* The branch after Write: every cache is empty again.
BranchWritten(b) ==
  [b EXCEPT !.cache = [n \in DOMAIN @ |-> [k \in Keys |-> NoWrite]]]

\* --------------------------------------------- Commit and Query, step by step
\* No Commit is under way.  A Commit under way has committed the first idx
\* sub-stores of order and collected their StoreInfos; old and new are the
\* CommitInfo before it and the one it builds.
NoCommit ==
  [active |-> FALSE, phase |-> "idle", bump |-> FALSE, order |-> << >>, idx |-> 0,
   version |-> 0, previousHeight |-> 0, infos |-> << >>, old |-> NoInfo, new |-> NoInfo]

\* No Query is under way.  A Query under way holds the sub-store's answer:
\* the height its proof was taken at and the root the proof leads to.
NoQuery == [active |-> FALSE, name |-> "", height |-> 0, root |-> NilHash]

\* No loadVersion is under way.  One under way holds the CommitInfo and the
\* sub-store map it has built (new) and the ones it is replacing (old).
NoLoad ==
  [phase |-> "idle", ver |-> 0,
   old |-> [info |-> NoInfo, stores |-> EmptyFn],
   new |-> [info |-> NoInfo, stores |-> EmptyFn, pruneHeights |-> << >>]]

\* A reader on another goroutine: which of lastCommitInfo and the sub-store
\* map it has read, and what it got.  apart is set when one of its reads
\* fell between the two assignments of a loadVersion, or the assignments
\* between its reads.
NoReader ==
  [reads |-> {}, info |-> NoInfo, stores |-> EmptyFn, apart |-> FALSE]

\* seen is the lastCommitInfo the last Query read, used the CommitInfo it
\* took the aggregation proof from.
NoConc ==
  [commit |-> NoCommit, query |-> NoQuery, seen |-> NoInfo, used |-> NoInfo,
   load |-> NoLoad, reader |-> NoReader]

\* A publication that updates the version of the CommitInfo in place.
SetLastCommitInfoVersion(rs, c) == [rs EXCEPT !.lastCommitInfo.version = c.version]

\* Store.SetLastCommitInfo: the pointer is replaced under the lock.
SetLastCommitInfo(rs, c) == [rs EXCEPT !.lastCommitInfo = c]

\* Store.LastCommitInfo: the pointer is read under the lock.
LastCommitInfo(rs) == rs.lastCommitInfo

\* commitStores, one turn of its loop: Commit on the store `name`.
commitStoresStep(rs, name, bumpVersion) ==
  [rs EXCEPT !.stores[name] = SubCommit(@, bumpVersion),
             !.db.trees[name] =
                IF rs.stores[name].typ = StoreTypeIAVL
                THEN SubCommitVersions(rs.stores[name], @, bumpVersion) ELSE @]

\* Store.Commit after SetLastCommitInfo: the prune height scheduled, the
\* stores pruned, the metadata flushed on return.
CommitTail(rs, version, previousHeight, cInfo) ==
  LET opts == rs.pruningOpts
      pruneHeight == previousHeight - opts.KeepRecent
      s1 == [rs EXCEPT !.pruneHeights =
               IF /\ opts.Interval > 0
                  /\ opts.KeepRecent < previousHeight
                  /\ (opts.KeepEvery = 0 \/ pruneHeight % opts.KeepEvery # 0)
               THEN Append(@, pruneHeight) ELSE @]
      s2 == IF opts.Interval > 0 /\ version % opts.Interval = 0
            THEN PruneStores(s1, TRUE, <<>>) ELSE s1
  IN flushMetadata(s2, version, cInfo)

\* The sub-store's answer to a proving query at `height` (0 is its latest
\* version): the height the proof is taken at and the root it leads to; no
\* proof when the store does not hold that version.
SubQuery(rs, name, height) ==
  LET v == IF height = 0 THEN rs.stores[name].last ELSE height
  IN IF v \in DOMAIN rs.db.trees[name]
     THEN [ok |-> TRUE, height |-> v, root |-> TreeHash(rs.db.trees[name][v])]
     ELSE [ok |-> FALSE, height |-> v, root |-> NilHash]

\* Store.Query, the choice of the CommitInfo for the aggregation proof.
QueryCommitInfo(rs, height) ==
  LET c == LastCommitInfo(rs)
  IN IF height = c.version THEN [ok |-> TRUE, cInfo |-> c]
     ELSE getCommitInfo(rs.db, height)

\* ------------------------------------------------------------------ mounts
\* Store keys by identity: keys of odd id are named a, keys of even id b, so
\* that different keys share a name.  NilKey is the nil key.
NilKey == [id |-> 0, name |-> ""]

StoreKeys == { [id |-> i, name |-> IF i % 2 = 1 THEN "a" ELSE "b"] : i \in 1..MaxKeys }

\* The registries of NewStore: storesParams by key, keysByName by name.
NewRegistry == [storesParams |-> EmptyFn, keysByName |-> EmptyFn]

\* A mount that does not look the name up in keysByName.
MountStoreWithDBByKey(reg, key, typ) ==
  IF key = NilKey \/ key \in DOMAIN reg.storesParams
  THEN [ok |-> FALSE, reg |-> reg]
  ELSE [ok |-> TRUE,
        reg |-> [storesParams |-> [k \in DOMAIN reg.storesParams \cup {key} |->
                                     IF k = key THEN typ ELSE reg.storesParams[k]],
                 keysByName |-> [n \in DOMAIN reg.keysByName \cup {key.name} |->
                                     IF n = key.name THEN key ELSE reg.keysByName[n]]]]

\* Store.MountStoreWithDB: a panic leaves the registries as they are.
MountStoreWithDB(reg, key, typ) ==
  IF \/ key = NilKey
     \/ key \in DOMAIN reg.storesParams
     \/ key.name \in DOMAIN reg.keysByName
  THEN [ok |-> FALSE, reg |-> reg]
  ELSE [ok |-> TRUE,
        reg |-> [storesParams |-> [k \in DOMAIN reg.storesParams \cup {key} |->
                                     IF k = key THEN typ ELSE reg.storesParams[k]],
                 keysByName |-> [n \in DOMAIN reg.keysByName \cup {key.name} |->
                                     IF n = key.name THEN key ELSE reg.keysByName[n]]]]

\* ------------------------------------------------------------ Query paths
\* A path is the sequence of its "/" and of the segments between them.
Slash == "/"
proofsPath == "proofs"

\* The codes of a query response.
CodeOK == "ok"
ErrUnknownRequest == "unknown request"
ErrInvalidRequest == "invalid request"
ErrInternal == "internal"

\* sdkerrors.QueryResult: the response that carries an error.
QueryResult(code) ==
  [code |-> code, height |-> 0, root |-> NilHash, proofs |-> << >>, queried |-> ""]

\* A parsePath that takes a path without the leading "/" as well.
parsePathLenient(path) ==
  LET rest == IF path # << >> /\ path[1] = Slash THEN Tail(path) ELSE path
  IN [ok |-> TRUE,
      storeName |-> IF rest = << >> \/ rest[1] = Slash THEN "" ELSE rest[1],
      subpath |-> IF rest = << >> THEN << >>
                  ELSE IF rest[1] = Slash THEN rest
                  ELSE Tail(rest)]

\* parsePath: the path starts with "/"; the store name is what follows up
\* to the next "/", the subpath the rest from that "/" on.
parsePath(path) ==
  IF path = << >> \/ path[1] # Slash
  THEN [ok |-> FALSE, storeName |-> "", subpath |-> << >>]
  ELSE LET rest == Tail(path)
       IN [ok |-> TRUE,
           storeName |-> IF rest = << >> \/ rest[1] = Slash THEN "" ELSE rest[1],
           subpath |-> IF rest = << >> THEN << >>
                       ELSE IF rest[1] = Slash THEN rest
                       ELSE Tail(rest)]

\* RequireProof: only the subpath /key is proved.
RequireProof(subpath) == subpath = << Slash, "key" >>

\* Store.doProofsQuery: the root of the CommitInfo at the height and a proof
\* op for every store it lists.
doProofsQuery(rs, height) ==
  LET got == getCommitInfo(rs.db, height)
  IN IF ~got.ok THEN QueryResult(ErrInternal)
     ELSE [code |-> CodeOK, height |-> height, root |-> Hash(got.cInfo),
           proofs |-> [i \in 1..Len(got.cInfo.storeInfos) |-> got.cInfo.storeInfos[i].name],
           queried |-> ""]

\* Store.Query: queried is the sub-store that was asked, proofs the stores
\* a proof op was appended for.
Query(rs, path, height, prove) ==
  LET parsed == parsePath(path)
      name == parsed.storeName
  IN IF ~parsed.ok THEN QueryResult(ErrUnknownRequest)
     ELSE IF name = proofsPath THEN doProofsQuery(rs, height)
     ELSE IF name \notin DOMAIN rs.stores THEN QueryResult(ErrUnknownRequest)
     ELSE IF rs.stores[name].typ # StoreTypeIAVL THEN QueryResult(ErrUnknownRequest)
     ELSE LET sub == SubQuery(rs, name, height)
              res == [code |-> IF sub.ok THEN CodeOK ELSE ErrInvalidRequest,
                      height |-> sub.height, root |-> sub.root, proofs |-> << >>,
                      queried |-> name]
              got == QueryCommitInfo(rs, sub.height)
          IN IF ~prove \/ ~RequireProof(parsed.subpath) THEN res
             ELSE IF ~sub.ok THEN [QueryResult(ErrInvalidRequest) EXCEPT !.queried = name]
             ELSE IF ~got.ok THEN [QueryResult(ErrInternal) EXCEPT !.queried = name]
             ELSE [res EXCEPT !.proofs = << name >>]

\* ----------------------------------------------------------------- state
\* The fields of Store; prunedVersions are the heights handed to
\* DeleteVersions so far; stream is what the last Snapshot wrote; peer is a
\* second instance, with a DB of its own; branch is the cache multi-store
\* branched off the Store; conc holds a Commit and a Query that are under
\* way at the same time; registry holds storesParams and keysByName by key
\* identity while stores are mounted; ret is the last call.
VARIABLES db, lastCommitInfo, pruningOpts, storesParams, stores, pruneHeights,
          initialVersion, earliestVersion, prunedVersions, stream, peer, branch, conc,
          registry, ret

vars == << db, lastCommitInfo, pruningOpts, storesParams, stores, pruneHeights,
           initialVersion, earliestVersion, prunedVersions, stream, peer, branch, conc,
           registry, ret >>

\* The Store the variables hold.
Self ==
  [db |-> db, lastCommitInfo |-> lastCommitInfo, pruningOpts |-> pruningOpts,
   storesParams |-> storesParams, stores |-> stores, pruneHeights |-> pruneHeights,
   initialVersion |-> initialVersion, earliestVersion |-> earliestVersion]

\* The variables become the Store rs.
Becomes(rs) ==
  /\ db' = rs.db
  /\ lastCommitInfo' = rs.lastCommitInfo
  /\ pruningOpts' = rs.pruningOpts
  /\ storesParams' = rs.storesParams
  /\ stores' = rs.stores
  /\ pruneHeights' = rs.pruneHeights
  /\ initialVersion' = rs.initialVersion
  /\ earliestVersion' = rs.earliestVersion

\* The last call: what it was given and what it returned.  calls counts the
\* Commit calls each sub-store received from it, scheduled is the pending
\* list as Commit left it before pruning; afterLoad is the version a
\* LoadVersion call that succeeded right before it loaded (-1 when none did).
NoRet ==
  [op |-> "NewStore", ok |-> TRUE, arg |-> 0, bump |-> FALSE, id |-> EmptyCommitID,
   calls |-> EmptyFn, scheduled |-> << >>, afterLoad |-> -1,
   item |-> ZeroItem, read |-> 0, code |-> CodeOK, path |-> << >>,
   upgrades |-> NoUpgrades]

\* Nothing was written by Snapshot yet.
NoStream == [ok |-> FALSE, height |-> 0, items |-> << >>]

\* NewStore, MountStoreWithDB for every store, SetPruning, LoadLatestVersion.
Constructed(mounts, opts) == LoadLatestVersion(NewStore(mounts, opts)).rs

InitWith(mountSets, pruningChoices) ==
  \E mounts \in mountSets, opts \in pruningChoices :
    /\ db = Constructed(mounts, opts).db
    /\ lastCommitInfo = Constructed(mounts, opts).lastCommitInfo
    /\ pruningOpts = Constructed(mounts, opts).pruningOpts
    /\ storesParams = Constructed(mounts, opts).storesParams
    /\ stores = Constructed(mounts, opts).stores
    /\ pruneHeights = Constructed(mounts, opts).pruneHeights
    /\ initialVersion = Constructed(mounts, opts).initialVersion
    /\ earliestVersion = Constructed(mounts, opts).earliestVersion
    /\ prunedVersions = {}
    /\ stream = NoStream
    /\ peer = Constructed(mounts, opts)
    /\ branch = NoBranch
    /\ conc = NoConc
    /\ registry = NewRegistry
    /\ ret = NoRet

\* Commit(bumpVersion), the sub-store map ranged over in `order`.
DoCommit(bumpVersion, order) ==
  \E r \in { Commit(Self, bumpVersion, order) } :
     /\ \A n \in DOMAIN stores : SubCommitReturns(stores[n], bumpVersion)
     /\ Becomes(r.rs)
     /\ prunedVersions' = prunedVersions \cup Range(CommitPruned(Self, bumpVersion, order))
     /\ UNCHANGED << stream, peer, branch, conc, registry >>
     /\ ret' = [NoRet EXCEPT
          !.op = "Commit", !.bump = bumpVersion, !.id = r.id,
          !.calls = commitStores(r.id.version, stores, db.trees, bumpVersion, order).calls,
          !.scheduled = CommitScheduled(Self, bumpVersion, order).pruneHeights,
          !.afterLoad = IF ret.op = "LoadVersion" /\ ret.ok THEN ret.arg ELSE -1]

\* The versions Commit(bumpVersion) reaches stay within bound.
CommitWithin(bumpVersion, bound) ==
  /\ CommitVersion(Self, bumpVersion) <= bound
  /\ \A n \in DOMAIN stores : SubCommitVersion(stores[n], bumpVersion) <= bound

\* A write to the loaded sub-store `name`.
DoSet(name, tree) ==
  /\ name \in DOMAIN stores
  /\ stores[name].work # tree
  /\ Becomes(SetStore(Self, name, tree))
  /\ UNCHANGED << prunedVersions, stream, peer, branch, conc, registry >>
  /\ ret' = [NoRet EXCEPT !.op = "Set"]

\* LoadLatestVersion()
DoLoadLatestVersion ==
  \E r \in { LoadLatestVersion(Self) } :
     /\ Becomes(r.rs)
     /\ UNCHANGED << prunedVersions, stream, peer, branch, conc, registry >>
     /\ ret' = [NoRet EXCEPT !.op = "LoadLatestVersion", !.ok = r.ok,
                             !.arg = GetLatestVersion(db)]

\* LoadVersion(ver)
DoLoadVersion(ver) ==
  \E r \in { loadVersion(Self, ver) } :
     /\ Becomes(r.rs)
     /\ UNCHANGED << prunedVersions, stream, peer, branch, conc, registry >>
     /\ ret' = [NoRet EXCEPT !.op = "LoadVersion", !.ok = r.ok, !.arg = ver]

\* The binary that renames oldName to newName starts on the DB and calls
\* LoadVersionAndUpgrade(ver, upgrades).
DoLoadVersionAndUpgrade(ver, oldName, newName) ==
  /\ oldName \in DOMAIN storesParams
  /\ newName \notin DOMAIN storesParams
  /\ \E r \in { loadVersionAndUpgrade(Upgraded(Self, oldName, newName), ver, oldName, newName) } :
       /\ r.ok
       /\ Becomes(r.rs)
       /\ UNCHANGED << prunedVersions, stream, peer, branch, conc, registry >>
       /\ ret' = [NoRet EXCEPT !.op = "LoadVersionAndUpgrade", !.ok = r.ok, !.arg = ver]

\* The binary with the same mounts starts on the DB and calls
\* LoadVersionAndUpgrade(ver, upgrades).
DoLoadVersionUpgrades(ver, upgrades) ==
  \E r \in { loadVersionUpgrades([NewStore(storesParams, pruningOpts) EXCEPT !.db = db],
                                 ver, upgrades) } :
     /\ Becomes(IF r.ok THEN r.rs ELSE Self)
     /\ UNCHANGED << prunedVersions, stream, peer, branch, conc, registry >>
     /\ ret' = [NoRet EXCEPT !.op = "LoadVersionUpgrades", !.ok = r.ok, !.arg = ver,
                             !.upgrades = upgrades]

\* The binary that also mounts the versioned store `name` starts on the DB
\* and calls LoadVersionAndUpgrade(ver, upgrades) with `name` added.
DoLoadVersionAdded(ver, name) ==
  /\ name \notin DOMAIN storesParams
  /\ \E r \in { loadVersionUpgrades(
                   [NewStore([n \in DOMAIN storesParams \cup {name} |->
                                IF n = name THEN StoreTypeIAVL ELSE storesParams[n]],
                             pruningOpts) EXCEPT !.db = db],
                   ver, [NoUpgrades EXCEPT !.added = {name}]) } :
       /\ r.ok
       /\ Becomes(r.rs)
       /\ UNCHANGED << prunedVersions, stream, peer, branch, conc, registry >>
       /\ ret' = [NoRet EXCEPT !.op = "LoadVersionAdded", !.ok = r.ok, !.arg = ver,
                               !.upgrades = [NoUpgrades EXCEPT !.added = {name}]]

\* The bytes at s/<ver> are damaged in the DB.
DoDamage(ver) ==
  /\ getCommitInfo(db, ver).ok \/ ver \notin DOMAIN db.commitInfo
  /\ db' = [db EXCEPT !.commitInfo =
              [v \in DOMAIN @ \cup {ver} |-> IF v = ver THEN Malformed ELSE @[v]]]
  /\ UNCHANGED << lastCommitInfo, pruningOpts, storesParams, stores, pruneHeights,
                  initialVersion, earliestVersion, prunedVersions, stream, peer, branch, conc, registry >>
  /\ ret' = [NoRet EXCEPT !.op = "Damage", !.arg = ver]

\* SetInitialVersion(version)
DoSetInitialVersion(version) ==
  /\ initialVersion # version
  /\ Becomes(SetInitialVersion(Self, version))
  /\ UNCHANGED << prunedVersions, stream, peer, branch, conc, registry >>
  /\ ret' = [NoRet EXCEPT !.op = "SetInitialVersion", !.arg = version]

\* RollbackToVersion(target)
DoRollbackToVersion(target, order, commitOrder) ==
  \E r \in { RollbackToVersion(Self, target, order, commitOrder) } :
     /\ Becomes(r.rs)
     /\ UNCHANGED << prunedVersions, stream, peer, branch, conc, registry >>
     /\ ret' = [NoRet EXCEPT !.op = "RollbackToVersion", !.ok = r.ok, !.arg = target]

\* PruneStores(clearStorePruningHeights, pruningHeights)
DoPruneStores(clearStorePruningHeights, pruningHeights) ==
  /\ Becomes(PruneStores(Self, clearStorePruningHeights, pruningHeights))
  /\ prunedVersions' =
       prunedVersions \cup Range(PrunedBy(Self, clearStorePruningHeights, pruningHeights))
  /\ UNCHANGED << stream, peer, branch, conc, registry >>
  /\ ret' = [NoRet EXCEPT !.op = "PruneStores", !.bump = clearStorePruningHeights,
                          !.scheduled = pruningHeights]

\* Snapshot(height, protoWriter), the sub-store map ranged over in `order`.
DoSnapshot(height, order) ==
  /\ stream' = Snapshot(Self, height, order)
  /\ UNCHANGED << db, lastCommitInfo, pruningOpts, storesParams, stores, pruneHeights,
                  initialVersion, earliestVersion, prunedVersions, peer, branch, conc, registry >>
  /\ ret' = [NoRet EXCEPT !.op = "Snapshot", !.ok = Snapshot(Self, height, order).ok,
                          !.arg = height]

\* A second instance is constructed on an empty DB, with the same mounts.
DoNewPeer ==
  /\ peer # Constructed(storesParams, pruningOpts)
  /\ peer' = Constructed(storesParams, pruningOpts)
  /\ UNCHANGED << db, lastCommitInfo, pruningOpts, storesParams, stores, pruneHeights,
                  initialVersion, earliestVersion, prunedVersions, stream, branch, conc, registry >>
  /\ ret' = [NoRet EXCEPT !.op = "NewPeer"]

\* peer.Restore(height, format, protoReader), reading what Snapshot wrote.
DoRestore(height) ==
  \E r \in { Restore(peer, height, stream.items) } :
     /\ peer' = r.rs
     /\ UNCHANGED << db, lastCommitInfo, pruningOpts, storesParams, stores, pruneHeights,
                     initialVersion, earliestVersion, prunedVersions, stream, branch, conc, registry >>
     /\ ret' = [NoRet EXCEPT !.op = "Restore", !.ok = r.ok, !.arg = height,
                             !.id = LastCommitID(r.rs), !.item = r.item, !.read = r.read]

\* A stream of records arrives from a sender.
DoReceive(height, items) ==
  /\ stream # [ok |-> TRUE, height |-> height, items |-> items]
  /\ stream' = [ok |-> TRUE, height |-> height, items |-> items]
  /\ UNCHANGED << db, lastCommitInfo, pruningOpts, storesParams, stores, pruneHeights,
                  initialVersion, earliestVersion, prunedVersions, peer, branch, conc, registry >>
  /\ ret' = [NoRet EXCEPT !.op = "Receive", !.arg = height]

\* B = CacheMultiStore()
DoCacheMultiStore ==
  /\ ~branch.open
  /\ branch' = CacheMultiStore(Self)
  /\ UNCHANGED << db, lastCommitInfo, pruningOpts, storesParams, stores, pruneHeights,
                  initialVersion, earliestVersion, prunedVersions, stream, peer, conc, registry >>
  /\ ret' = [NoRet EXCEPT !.op = "CacheMultiStore"]

\* B, err = CacheMultiStoreWithVersion(version)
DoCacheMultiStoreWithVersion(version) ==
  /\ ~branch.open
  /\ branch' = CacheMultiStoreWithVersion(Self, version).branch
  /\ UNCHANGED << db, lastCommitInfo, pruningOpts, storesParams, stores, pruneHeights,
                  initialVersion, earliestVersion, prunedVersions, stream, peer, conc, registry >>
  /\ ret' = [NoRet EXCEPT !.op = "CacheMultiStoreWithVersion",
                          !.ok = CacheMultiStoreWithVersion(Self, version).ok,
                          !.arg = version]

\* Set(k, v) on the sub-store `name` of the branch.
DoBranchSet(name, k, v) ==
  /\ branch.open
  /\ name \in DOMAIN branch.cache
  /\ branch.cache[name][k] # v
  /\ branch' = BranchSet(branch, name, k, v)
  /\ UNCHANGED << db, lastCommitInfo, pruningOpts, storesParams, stores, pruneHeights,
                  initialVersion, earliestVersion, prunedVersions, stream, peer, conc, registry >>
  /\ ret' = [NoRet EXCEPT !.op = "BranchSet"]

\* Delete(k) on the sub-store `name` of the branch.
DoBranchDelete(name, k) ==
  /\ branch.open
  /\ name \in DOMAIN branch.cache
  /\ branch.cache[name][k] # Deleted
  /\ branch' = BranchDelete(branch, name, k)
  /\ UNCHANGED << db, lastCommitInfo, pruningOpts, storesParams, stores, pruneHeights,
                  initialVersion, earliestVersion, prunedVersions, stream, peer, conc, registry >>
  /\ ret' = [NoRet EXCEPT !.op = "BranchDelete"]

\* B.Write()
DoBranchWrite ==
  /\ branch.open
  /\ \A n \in DOMAIN branch.views, k \in Keys : branch.cache[n][k] = NoWrite
  /\ Becomes(BranchWrite(branch, Self))
  /\ branch' = BranchWritten(branch)
  /\ UNCHANGED << prunedVersions, stream, peer, conc, registry >>
  /\ ret' = [NoRet EXCEPT !.op = "BranchWrite", !.arg = Buffered(branch)]

\* The branch is dropped without Write.
DoBranchDiscard ==
  /\ branch.open
  /\ branch' = NoBranch
  /\ UNCHANGED << db, lastCommitInfo, pruningOpts, storesParams, stores, pruneHeights,
                  initialVersion, earliestVersion, prunedVersions, stream, peer, conc, registry >>
  /\ ret' = [NoRet EXCEPT !.op = "BranchDiscard"]

\* Commit(bumpVersion) is entered: the version is chosen.
DoCommitBegin(bumpVersion, order) ==
  /\ ~conc.commit.active
  /\ \A n \in DOMAIN stores : SubCommitReturns(stores[n], bumpVersion)
  /\ conc' = [conc EXCEPT !.commit =
       [active |-> TRUE, phase |-> "stores", bump |-> bumpVersion, order |-> order,
        idx |-> 0, version |-> CommitVersion(Self, bumpVersion),
        previousHeight |-> PreviousHeight(Self, bumpVersion), infos |-> << >>,
        old |-> lastCommitInfo,
        new |-> commitStores(CommitVersion(Self, bumpVersion), stores, db.trees,
                             bumpVersion, order).info]]
  /\ UNCHANGED << db, lastCommitInfo, pruningOpts, storesParams, stores, pruneHeights,
                  initialVersion, earliestVersion, prunedVersions, stream, peer, branch, registry >>
  /\ ret' = [NoRet EXCEPT !.op = "CommitBegin", !.bump = bumpVersion]

\* commitStores commits the next sub-store.
DoCommitStore ==
  /\ conc.commit.active
  /\ conc.commit.phase = "stores"
  /\ conc.commit.idx < Len(conc.commit.order)
  /\ LET name == conc.commit.order[conc.commit.idx + 1]
         rs == commitStoresStep(Self, name, conc.commit.bump)
     IN /\ Becomes(rs)
        /\ conc' = [conc EXCEPT
             !.commit.idx = @ + 1,
             !.commit.infos =
                IF stores[name].typ = StoreTypeTransient THEN @
                ELSE Append(@, [name |-> name, commitId |-> SubLastCommitID(rs.stores[name])])]
  /\ UNCHANGED << prunedVersions, stream, peer, branch, registry >>
  /\ ret' = [NoRet EXCEPT !.op = "CommitStore"]

\* commitStores returns and SetLastCommitInfo publishes its CommitInfo.
DoCommitPublish ==
  /\ conc.commit.active
  /\ conc.commit.phase = "stores"
  /\ conc.commit.idx = Len(conc.commit.order)
  /\ Becomes(SetLastCommitInfo(Self,
       [version |-> conc.commit.version, storeInfos |-> conc.commit.infos]))
  /\ conc' = [conc EXCEPT !.commit.phase = "published"]
  /\ UNCHANGED << prunedVersions, stream, peer, branch, registry >>
  /\ ret' = [NoRet EXCEPT !.op = "CommitPublish"]

\* Commit schedules, prunes, flushes and returns.
DoCommitReturn ==
  /\ conc.commit.active
  /\ conc.commit.phase = "published"
  /\ Becomes(CommitTail(Self, conc.commit.version, conc.commit.previousHeight,
                        lastCommitInfo))
  /\ prunedVersions' = prunedVersions
  /\ conc' = [conc EXCEPT !.commit = NoCommit]
  /\ UNCHANGED << stream, peer, branch, registry >>
  /\ ret' = [NoRet EXCEPT !.op = "Commit", !.bump = conc.commit.bump,
                          !.id = [version |-> conc.commit.version,
                                  hash |-> Hash(lastCommitInfo)]]

\* Query with Prove set: the sub-store `name` answers for `height`.
DoQueryStore(name, height) ==
  /\ ~conc.query.active
  /\ name \in DOMAIN stores
  /\ stores[name].typ = StoreTypeIAVL
  /\ LET res == SubQuery(Self, name, height)
     IN /\ conc' = [conc EXCEPT !.query =
              IF res.ok
              THEN [active |-> TRUE, name |-> name, height |-> res.height, root |-> res.root]
              ELSE NoQuery]
        /\ ret' = [NoRet EXCEPT !.op = "QueryStore", !.ok = res.ok, !.arg = res.height]
  /\ UNCHANGED << db, lastCommitInfo, pruningOpts, storesParams, stores, pruneHeights,
                  initialVersion, earliestVersion, prunedVersions, stream, peer, branch, registry >>

\* Query reads lastCommitInfo, picks the CommitInfo and returns.
DoQueryReturn ==
  /\ conc.query.active
  /\ LET got == QueryCommitInfo(Self, conc.query.height)
     IN /\ conc' = [conc EXCEPT !.query = NoQuery,
                                !.seen = LastCommitInfo(Self),
                                !.used = got.cInfo]
        /\ ret' = [NoRet EXCEPT !.op = "Query", !.ok = got.ok, !.arg = conc.query.height,
                                !.id = [version |-> GetVersion(got.cInfo),
                                        hash |-> conc.query.root]]
  /\ UNCHANGED << db, lastCommitInfo, pruningOpts, storesParams, stores, pruneHeights,
                  initialVersion, earliestVersion, prunedVersions, stream, peer, branch, registry >>

\* loadVersion(ver, nil) up to its two assignments: the CommitInfo is read
\* and the sub-stores are loaded into a new map.
DoLoadVersionBuild(ver) ==
  /\ conc.load.phase = "idle"
  /\ LET r == loadVersion(Self, ver)
     IN /\ conc' = IF r.ok
                   THEN [conc EXCEPT !.load =
                           [phase |-> "built", ver |-> ver,
                            old |-> [info |-> lastCommitInfo, stores |-> stores],
                            new |-> [info |-> r.rs.lastCommitInfo, stores |-> r.rs.stores,
                                     pruneHeights |-> r.rs.pruneHeights]]]
                   ELSE conc
        /\ ret' = [NoRet EXCEPT !.op = IF r.ok THEN "LoadVersionBuild" ELSE "LoadVersion",
                                !.ok = r.ok, !.arg = ver]
  /\ UNCHANGED << db, lastCommitInfo, pruningOpts, storesParams, stores, pruneHeights,
                  initialVersion, earliestVersion, prunedVersions, stream, peer, branch, registry >>

\* loadVersion: rs.SetLastCommitInfo(cInfo)
DoLoadVersionInfo ==
  /\ conc.load.phase = "built"
  /\ Becomes(SetLastCommitInfo(Self, conc.load.new.info))
  /\ conc' = [conc EXCEPT !.load.phase = "info",
                          !.reader.apart = @ \/ Cardinality(conc.reader.reads) = 1]
  /\ UNCHANGED << prunedVersions, stream, peer, branch, registry >>
  /\ ret' = [NoRet EXCEPT !.op = "LoadVersionInfo", !.arg = conc.load.ver]

\* loadVersion: rs.stores = newStores, the pruning heights, return.
DoLoadVersionStores ==
  /\ conc.load.phase = "info"
  /\ Becomes([Self EXCEPT !.stores = conc.load.new.stores,
                          !.pruneHeights = conc.load.new.pruneHeights])
  /\ conc' = [conc EXCEPT !.load = NoLoad,
                          !.reader.apart = @ \/ Cardinality(conc.reader.reads) = 1]
  /\ UNCHANGED << prunedVersions, stream, peer, branch, registry >>
  /\ ret' = [NoRet EXCEPT !.op = "LoadVersion", !.ok = TRUE, !.arg = conc.load.ver]

\* The reader calls LastCommitInfo().
DoReadInfo ==
  /\ "info" \notin conc.reader.reads
  /\ conc' = [conc EXCEPT !.reader =
                [reads |-> @.reads \cup {"info"}, info |-> LastCommitInfo(Self),
                 stores |-> @.stores, apart |-> @.apart \/ conc.load.phase = "info"]]
  /\ UNCHANGED << db, lastCommitInfo, pruningOpts, storesParams, stores, pruneHeights,
                  initialVersion, earliestVersion, prunedVersions, stream, peer, branch,
                  registry, ret >>

\* The reader reads rs.stores, as GetStoreByName and Query do, without a lock.
DoReadStores ==
  /\ "stores" \notin conc.reader.reads
  /\ conc' = [conc EXCEPT !.reader =
                [reads |-> @.reads \cup {"stores"}, info |-> @.info,
                 stores |-> stores, apart |-> @.apart \/ conc.load.phase = "info"]]
  /\ UNCHANGED << db, lastCommitInfo, pruningOpts, storesParams, stores, pruneHeights,
                  initialVersion, earliestVersion, prunedVersions, stream, peer, branch,
                  registry, ret >>

\* The reader has both and returns; the next one starts.
DoReadReturn ==
  /\ conc.reader.reads = {"info", "stores"}
  /\ conc' = [conc EXCEPT !.reader = NoReader]
  /\ UNCHANGED << db, lastCommitInfo, pruningOpts, storesParams, stores, pruneHeights,
                  initialVersion, earliestVersion, prunedVersions, stream, peer, branch,
                  registry, ret >>

\* MountStoreWithDB(key, typ, nil), its panic recovered by the caller.
DoMount(key, typ) ==
  /\ registry' = MountStoreWithDB(registry, key, typ).reg
  /\ UNCHANGED << db, lastCommitInfo, pruningOpts, storesParams, stores, pruneHeights,
                  initialVersion, earliestVersion, prunedVersions, stream, peer, branch, conc >>
  /\ ret' = [NoRet EXCEPT !.op = "Mount", !.ok = MountStoreWithDB(registry, key, typ).ok,
                          !.arg = key.id]

\* Query(req) with req.Path, req.Height and req.Prove.
DoQuery(path, height, prove) ==
  /\ UNCHANGED << db, lastCommitInfo, pruningOpts, storesParams, stores, pruneHeights,
                  initialVersion, earliestVersion, prunedVersions, stream, peer, branch,
                  conc, registry >>
  /\ ret' = [NoRet EXCEPT !.op = "QueryPath",
                          !.ok = Query(Self, path, height, prove).code = CodeOK,
                          !.code = Query(Self, path, height, prove).code,
                          !.arg = height, !.path = path, !.bump = prove,
                          !.calls = [n \in DOMAIN stores |->
                             IF Query(Self, path, height, prove).queried = n THEN 1 ELSE 0]]

\* --------------------------------------------------------- specifications
\* Committing: write, set the initial version, commit, load.
Init == InitWith({MountAT, MountMT}, {PruneNothing})

Next ==
  \/ \E b \in BOOLEAN, o \in IterOrders(DOMAIN stores) :
       CommitWithin(b, MaxVersion) /\ DoCommit(b, o)
  \/ \E n \in DOMAIN stores, t \in Contents : DoSet(n, t)
  \/ DoLoadLatestVersion
  \/ \E v \in 1..MaxVersion : DoLoadVersion(v)
  \/ \E v \in 1..MaxInitialVersion : DoSetInitialVersion(v)

Spec == Init /\ [][Next]_vars

\* Iteration order: two stores that are not transient, commit and write.
InitOrder == InitWith({MountAMT, MountABT}, {PruneNothing})

NextOrder ==
  \/ \E b \in BOOLEAN, o \in IterOrders(DOMAIN stores) :
       CommitWithin(b, MaxOrderVersion) /\ DoCommit(b, o)
  \/ \E n \in DOMAIN stores, t \in Contents : DoSet(n, t)

SpecOrder == InitOrder /\ [][NextOrder]_vars

\* Pruning: commit, load, roll back, prune.  One versioned store is mounted,
\* so the order the stores are ranged over plays no part: it is by name.
InitPrune == InitWith({MountAT}, {Prune12, Prune13, PruneKeepEvery})

NextPrune ==
  \/ \E b \in BOOLEAN, o \in {SortByName(DOMAIN stores)} :
       /\ CommitWithin(b, MaxPruneVersion)
       /\ Len(pruneHeights) < MaxPending
       /\ DoCommit(b, o)
  \/ DoLoadLatestVersion
  \/ \E v \in 1..MaxPruneVersion : DoLoadVersion(v)
  \/ \E t \in 0..MaxPruneVersion, o \in {SortByName(DOMAIN stores)} :
       DoRollbackToVersion(t, o, o)
  \/ \E c \in BOOLEAN, h \in 1..MaxPruneVersion :
       /\ h < LastCommitID(Self).version
       /\ DoPruneStores(c, << h >>)

SpecPrune == InitPrune /\ [][NextPrune]_vars

\* Rollback: write, commit, roll back, with and without pruning.
InitRollback == InitWith({MountAM}, {PruneNothing, PruneKeepEvery})

NextRollback ==
  \/ \E b \in BOOLEAN, o \in IterOrders(DOMAIN stores) :
       /\ CommitWithin(b, MaxRollbackVersion)
       /\ Len(pruneHeights) < MaxPending
       /\ DoCommit(b, o)
  \/ \E t \in Contents : DoSet("a", t)
  \/ \E t \in (-1)..MaxRollbackVersion, o, c \in IterOrders(DOMAIN stores) :
       DoRollbackToVersion(t, o, c)

SpecRollback == InitRollback /\ [][NextRollback]_vars

\* Snapshot and restore: write, commit, snapshot, restore into the peer.
\* Version 1 is pruned by the commit of version 2; the stores are ranged
\* over by name in Commit and in any order in Snapshot.
InitSnapshot == InitWith({MountAB}, {PruneKeepEvery})

NextSnapshot ==
  \/ \E o \in {SortByName(DOMAIN stores)} :
       CommitWithin(TRUE, MaxSnapshotVersion) /\ DoCommit(TRUE, o)
  \/ \E n \in {"a", "b"}, t \in SnapshotContents : DoSet(n, t)
  \/ \E h \in 0..(MaxSnapshotVersion + 1), o \in IterOrders(DOMAIN stores) : DoSnapshot(h, o)
  \/ DoNewPeer
  \/ \E h \in 1..MaxSnapshotVersion : DoRestore(h)

SpecSnapshot == InitSnapshot /\ [][NextSnapshot]_vars

\* Branching: write to the parent, commit, branch, write through the branch,
\* merge or drop it.
InitBranch == InitWith({MountAMT}, {PruneNothing})

NextBranch ==
  \/ \E o \in {SortByName(DOMAIN stores)} :
       CommitWithin(TRUE, MaxBranchVersion) /\ DoCommit(TRUE, o)
  \/ \E n \in DOMAIN stores, t \in Contents : DoSet(n, t)
  \/ DoCacheMultiStore
  \/ \E n \in DOMAIN stores, k \in Keys : DoBranchSet(n, k, Value1)
  \/ \E n \in DOMAIN stores, k \in Keys : DoBranchDelete(n, k)
  \/ DoBranchWrite
  \/ DoBranchDiscard

SpecBranch == InitBranch /\ [][NextBranch]_vars

\* Queries during a Commit: writes, a Commit taken step by step, proving
\* queries taken in two steps, in any interleaving.
InitQuery == InitWith({MountAB}, {PruneNothing})

NextQuery ==
  \/ \E b \in BOOLEAN, o \in IterOrders(DOMAIN stores) :
       /\ CommitWithin(b, MaxQueryVersion)
       /\ DoCommitBegin(b, o)
  \/ DoCommitStore
  \/ DoCommitPublish
  \/ DoCommitReturn
  \/ \E n \in {"a"}, t \in Contents : ~conc.commit.active /\ DoSet(n, t)
  \/ \E n \in DOMAIN stores, h \in 0..MaxQueryVersion : DoQueryStore(n, h)
  \/ DoQueryReturn

SpecQuery == InitQuery /\ [][NextQuery]_vars

\* Store kinds: a versioned, a memory and a transient sub-store under
\* Commit, RollbackToVersion, Snapshot and Restore into the peer.
InitKinds == InitWith({MountAMT}, {PruneNothing})

NextKinds ==
  \/ \E o \in {SortByName(DOMAIN stores)} :
       CommitWithin(TRUE, MaxKindsVersion) /\ DoCommit(TRUE, o)
  \/ \E t \in Contents : DoSet("a", t)
  \/ \E t \in 1..MaxKindsVersion, o \in {SortByName(DOMAIN stores)} :
       DoRollbackToVersion(t, o, o)
  \/ \E h \in 1..MaxKindsVersion, o \in {SortByName(DOMAIN stores)} : DoSnapshot(h, o)
  \/ DoNewPeer
  \/ \E h \in 1..MaxKindsVersion : stream.ok /\ stream.height = h /\ DoRestore(h)

SpecKinds == InitKinds /\ [][NextKinds]_vars

\* Persisted records: a versioned and a memory sub-store, the sub-store map
\* ranged over in any order by Commit and RollbackToVersion, and Snapshot
\* and Restore into the peer.
InitPersist == InitWith({MountAM}, {PruneNothing})

NextPersist ==
  \/ \E o \in IterOrders(DOMAIN stores) :
       CommitWithin(TRUE, MaxPersistVersion) /\ DoCommit(TRUE, o)
  \/ \E t \in 1..MaxPersistVersion, o \in {SortByName(DOMAIN stores)},
        c \in IterOrders(DOMAIN stores) :
       DoRollbackToVersion(t, o, c)
  \/ \E h \in 1..MaxPersistVersion, o \in {SortByName(DOMAIN stores)} : DoSnapshot(h, o)
  \/ DoNewPeer
  \/ \E h \in 1..MaxPersistVersion : stream.ok /\ stream.height = h /\ DoRestore(h)

SpecPersist == InitPersist /\ [][NextPersist]_vars

\* Publication: one goroutine writes, commits and loads earlier versions,
\* loadVersion's two assignments taken one at a time, while a reader on
\* another goroutine reads lastCommitInfo and the sub-store map.  No Commit
\* runs while the reader is between its reads: the reader meets loadVersion only.
InitPublish == InitWith({MountAT}, {PruneNothing})

NextPublish ==
  \/ \E o \in {SortByName(DOMAIN stores)} :
       /\ conc.load.phase = "idle"
       /\ conc.reader.reads = {}
       /\ CommitWithin(TRUE, MaxPublishVersion)
       /\ DoCommit(TRUE, o)
  \/ \E t \in Contents : conc.load.phase = "idle" /\ DoSet("a", t)
  \/ \E v \in 1..MaxPublishVersion : DoLoadVersionBuild(v)
  \/ DoLoadVersionInfo
  \/ DoLoadVersionStores
  \/ DoReadInfo
  \/ DoReadStores
  \/ DoReadReturn

SpecPublish == InitPublish /\ [][NextPublish]_vars

\* Upgrades: write, commit, start the binary that renames the versioned
\* store a to b, and go on.
InitUpgrade == InitWith({MountAT}, {PruneNothing})

NextUpgrade ==
  \/ \E o \in {SortByName(DOMAIN stores)} :
       CommitWithin(TRUE, MaxUpgradeVersion) /\ DoCommit(TRUE, o)
  \/ \E t \in Contents \cup SnapshotContents : DoSet("a", t)
  \/ \E t \in {Tree1} : DoSet("b", t)
  \/ \E v \in 0..MaxUpgradeVersion : DoLoadVersionAndUpgrade(v, "a", "b")

SpecUpgrade == InitUpgrade /\ [][NextUpgrade]_vars

\* Deletions: write, commit, start the binary again with upgrades that add
\* or delete stores, mounted or not, and go on.
DeleteUpgrades ==
  { [NoUpgrades EXCEPT !.deleted = d] : d \in {{"a"}, {"t", "z"}} }
    \cup { NoUpgrades, [NoUpgrades EXCEPT !.added = {"b"}] }

InitDelete == InitWith({MountABT}, {PruneNothing})

NextDelete ==
  \/ \E o \in {SortByName(DOMAIN stores)} :
       CommitWithin(TRUE, MaxDeleteVersion) /\ DoCommit(TRUE, o)
  \/ \E t \in {Tree1} : DoSet("a", t)
  \/ \E t \in {Tree1} : DoSet("b", t)
  \/ \E v \in 1..MaxDeleteVersion, u \in DeleteUpgrades : DoLoadVersionUpgrades(v, u)

SpecDelete == InitDelete /\ [][NextDelete]_vars

\* Restore of nodes as a sender may write them: key and value absent or
\* not, leaves and inner nodes, versions, and heights inside and outside
\* what a signed 8-bit integer holds.
NodeHeights == { -256, -129, -128, 0, 1, 127, 128 }

NodeItems ==
  [kind : {"iavl"}, name : {""}, key : {NilBytes, "k1"}, value : {NilBytes, "v1"},
   height : NodeHeights, version : {1, 2}]

NodeStreams ==
  { << SnapshotStoreItem("a"), n >> : n \in NodeItems }
    \cup { << SnapshotStoreItem("a"), SnapshotIAVLItem(Leaf("k1", "v1", 1)), n >> :
             n \in { m \in NodeItems : m.key = NilBytes /\ m.value = NilBytes } }

InitNodes == InitWith({MountAT}, {PruneNothing})

NextNodes ==
  \/ \E h \in 1..MaxNodesHeight, items \in NodeStreams : DoReceive(h, items)
  \/ DoNewPeer
  \/ \E h \in 1..MaxNodesHeight : stream.ok /\ stream.height = h /\ DoRestore(h)

SpecNodes == InitNodes /\ [][NextNodes]_vars

\* Retention: commit, load an earlier version, roll back, commit again,
\* under pruning with an interval.
InitRetain == InitWith({MountAT}, {Prune12, Prune13})

NextRetain ==
  \/ \E o \in {SortByName(DOMAIN stores)} :
       /\ CommitWithin(TRUE, MaxRetainVersion)
       /\ Len(pruneHeights) < MaxRetainPending
       /\ DoCommit(TRUE, o)
  \/ \E v \in 1..MaxRetainVersion : DoLoadVersion(v)
  \/ \E t \in 1..MaxRetainVersion, o \in {SortByName(DOMAIN stores)} :
       DoRollbackToVersion(t, o, o)

SpecRetain == InitRetain /\ [][NextRetain]_vars

\* Rollback over stores of different age: commit, start the binary
\* that adds the versioned store b, commit, roll back with the sub-store map
\* ranged over in any order.
InitAdded == InitWith({MountAT}, {PruneNothing})

NextAdded ==
  \/ \E o \in {SortByName(DOMAIN stores)} :
       CommitWithin(TRUE, MaxAddedVersion) /\ DoCommit(TRUE, o)
  \/ \E v \in 1..MaxAddedVersion : DoLoadVersionAdded(v, "b")
  \/ \E t \in 0..MaxAddedVersion, o \in IterOrders(DOMAIN stores) :
       DoRollbackToVersion(t, o, SortByName(DOMAIN stores))

SpecAdded == InitAdded /\ [][NextAdded]_vars

\* /proofs queries during a Commit: writes, a Commit taken step by step and
\* /proofs queries at any height, in any interleaving.
InitFlush == InitWith({MountAT}, {PruneNothing})

NextFlush ==
  \/ \E b \in BOOLEAN, o \in {SortByName(DOMAIN stores)} :
       /\ CommitWithin(b, MaxFlushVersion)
       /\ DoCommitBegin(b, o)
  \/ DoCommitStore
  \/ DoCommitPublish
  \/ DoCommitReturn
  \/ \E t \in Contents : ~conc.commit.active /\ DoSet("a", t)
  \/ \E h \in 0..MaxFlushVersion : DoQuery(<< Slash, proofsPath >>, h, FALSE)

SpecFlush == InitFlush /\ [][NextFlush]_vars

\* Branches at a version: write, commit (version 1 is pruned by the commit
\* of version 2), branch at a version, write through the branch, merge or
\* drop it.
InitView == InitWith({MountAM}, {PruneNothing, PruneKeepEvery})

NextView ==
  \/ \E o \in {SortByName(DOMAIN stores)} :
       CommitWithin(TRUE, MaxViewVersion) /\ DoCommit(TRUE, o)
  \/ \E n \in DOMAIN stores, t \in Contents : DoSet(n, t)
  \/ \E v \in 0..(MaxViewVersion + 1) : DoCacheMultiStoreWithVersion(v)
  \/ \E n \in DOMAIN stores, k \in Keys : DoBranchSet(n, k, Value1)
  \/ DoBranchWrite
  \/ DoBranchDiscard

SpecView == InitView /\ [][NextView]_vars

\* Loading: write, commit, load any version, its record present, missing
\* or damaged.
InitLoad == InitWith({MountAT}, {PruneNothing, Prune13})

NextLoad ==
  \/ \E o \in {SortByName(DOMAIN stores)} :
       CommitWithin(TRUE, MaxLoadVersion) /\ DoCommit(TRUE, o)
  \/ \E n \in {"a"}, t \in Contents : DoSet(n, t)
  \/ \E v \in 0..(MaxLoadVersion + 1) : DoLoadVersion(v)
  \/ \E v \in 0..MaxLoadVersion : DoDamage(v)

SpecLoad == InitLoad /\ [][NextLoad]_vars

\* Restore from streams as a sender may write them: a node first, a store
\* that is not mounted or not versioned, a record of another kind in the
\* middle, and well-formed ones.
NodeItem1 == SnapshotIAVLItem(Leaf("k1", "v1", 1))

ExtensionItem ==
  [kind |-> "extension", name |-> "ext", key |-> NilBytes, value |-> NilBytes,
   height |-> 0, version |-> 0]

ReceivedStreams ==
  { << >>,
    << NodeItem1, SnapshotStoreItem("a") >>,
    << SnapshotStoreItem("a"), NodeItem1, SnapshotStoreItem("z"), NodeItem1 >>,
    << SnapshotStoreItem("a"), NodeItem1, SnapshotStoreItem("t"), NodeItem1 >>,
    << SnapshotStoreItem("a"), NodeItem1, SnapshotStoreItem("b"), NodeItem1 >>,
    << SnapshotStoreItem("a"), NodeItem1, ExtensionItem, SnapshotStoreItem("b"), NodeItem1 >>,
    << SnapshotStoreItem("a"), SnapshotStoreItem("b"), NodeItem1, ExtensionItem, ExtensionItem >>,
    << ExtensionItem, NodeItem1 >> }

InitRestore == InitWith({MountABT}, {PruneNothing})

NextRestore ==
  \/ \E h \in 1..MaxRestoreHeight, items \in ReceivedStreams : DoReceive(h, items)
  \/ DoNewPeer
  \/ \E h \in 1..MaxRestoreHeight : stream.ok /\ stream.height = h /\ DoRestore(h)

SpecRestore == InitRestore /\ [][NextRestore]_vars

\* Export: write, commit, load an earlier version, snapshot any height.
InitExport == InitWith({MountAT}, {PruneNothing})

NextExport ==
  \/ \E o \in {SortByName(DOMAIN stores)} :
       CommitWithin(TRUE, MaxExportVersion) /\ DoCommit(TRUE, o)
  \/ \E t \in Contents : DoSet("a", t)
  \/ \E v \in 1..MaxExportVersion : DoLoadVersion(v)
  \/ \E h \in 0..(MaxExportVersion + 1), o \in {SortByName(DOMAIN stores)} : DoSnapshot(h, o)

SpecExport == InitExport /\ [][NextExport]_vars

\* Mounting: any key, the nil key included, is mounted with any type.
InitMount == InitWith({MountAT}, {PruneNothing})

NextMount ==
  \E key \in StoreKeys \cup {NilKey},
     typ \in {StoreTypeIAVL, StoreTypeTransient, StoreTypeMemory} : DoMount(key, typ)

SpecMount == InitMount /\ [][NextMount]_vars

\* Query paths: write, commit, query by any of the paths.
QueryPaths ==
  { << >>,
    << "a" >>,
    << "a", Slash, "key" >>,
    << Slash >>,
    << Slash, Slash, "a" >>,
    << Slash, "a" >>,
    << Slash, "a", Slash, "key" >>,
    << Slash, "t", Slash, "key" >>,
    << Slash, "z" >>,
    << Slash, "z", Slash, "key" >>,
    << Slash, proofsPath >> }

InitPath == InitWith({MountAT}, {PruneNothing})

NextPath ==
  \/ \E o \in {SortByName(DOMAIN stores)} :
       CommitWithin(TRUE, MaxPathVersion) /\ DoCommit(TRUE, o)
  \/ \E t \in Contents : DoSet("a", t)
  \/ \E path \in QueryPaths, h \in 0..MaxPathVersion, prove \in BOOLEAN : DoQuery(path, h, prove)

SpecPath == InitPath /\ [][NextPath]_vars

\* ----------------------------------------------------------------- claims
\* C1: Commit(bumpVersion) commits at version next, where next is
\* initialVersion if the last committed version is 0 and initialVersion > 1,
\* else lastVersion + 1 if bumpVersion, else lastVersion; the CommitID it
\* returns, lastCommitInfo and s/latest carry exactly this version.
C1_CommitVersion ==
  [][ret'.op = "Commit" =>
       LET lastVersion == GetVersion(lastCommitInfo)
           next == IF lastVersion = 0 /\ initialVersion > 1 THEN initialVersion
                   ELSE IF ret'.bump THEN lastVersion + 1
                   ELSE lastVersion
       IN /\ ret'.id.version = next
          /\ GetVersion(lastCommitInfo') = next
          /\ GetLatestVersion(db') = next]_vars

\* C1 witness: a Commit(false) after two commits has returned version 2.
C1_Witness ==
  /\ ret.op = "Commit"
  /\ ~ret.bump
  /\ ret.id.version = 2
  /\ initialVersion = 0

\* C2: when Commit returns (v, h), s/latest is v, s/<v> is a CommitInfo with
\* version v and root hash h, lastCommitInfo is that CommitInfo, and every
\* mounted sub-store received exactly one Commit call.
C2_CommitPublished ==
  ret.op = "Commit" =>
    /\ db.latest = ret.id.version
    /\ getCommitInfo(db, ret.id.version).ok
    /\ getCommitInfo(db, ret.id.version).cInfo.version = ret.id.version
    /\ Hash(getCommitInfo(db, ret.id.version).cInfo) = ret.id.hash
    /\ lastCommitInfo = getCommitInfo(db, ret.id.version).cInfo
    /\ DOMAIN ret.calls = DOMAIN storesParams
    /\ \A n \in DOMAIN storesParams : ret.calls[n] = 1

\* C2 witness: Commit has returned version 2 with the root of a written tree.
C2_Witness ==
  /\ ret.op = "Commit"
  /\ ret.id.version = 2
  /\ ret.id.hash = MerkleRoot(<< [name |-> "a", hash |-> TreeHash(Tree1)] >>)

\* The Merkle root over the (name, sub-store hash) pairs of the stores that
\* are not transient, by name.
RootOf(storeMap) ==
  LET kept == SortByName({ n \in DOMAIN storeMap : storeMap[n].typ # StoreTypeTransient })
  IN IF kept = << >> THEN NilHash
     ELSE MerkleRoot([i \in 1..Len(kept) |->
            [name |-> kept[i], hash |-> SubLastCommitID(storeMap[kept[i]]).hash]])

\* C3: the root hash Commit returns is the Merkle root over the name-ordered
\* (store name, sub-store root hash) pairs, and an instance in the same
\* state that ranges over its sub-stores in any other order returns the same
\* CommitID.
C3_RootOrderFree ==
  [][ret'.op = "Commit" =>
       /\ ret'.id.hash = RootOf(stores')
       /\ \A o \in IterOrders(DOMAIN stores) : Commit(Self, ret'.bump, o).id = ret'.id]_vars

\* C3 witness: a commit of two written stores that are not transient, the
\* StoreInfos listed against the order of the names.
C3_Witness ==
  /\ ret.op = "Commit"
  /\ Len(lastCommitInfo.storeInfos) = 2
  /\ lastCommitInfo.storeInfos[1].name = "b"
  /\ lastCommitInfo.storeInfos[2].name = "a"
  /\ stores["a"].saved = Tree1
  /\ stores["b"].saved = EmptyTree

\* Two CommitInfos with the same version and, store name by store name, the
\* same CommitID.
SameCommitIDs(c1, c2) ==
  /\ c1.version = c2.version
  /\ DOMAIN toMap(c1) = DOMAIN toMap(c2)
  /\ \A n \in DOMAIN toMap(c1) : getCommitID(c1, n) = getCommitID(c2, n)

\* C4 as stated: for every target t with 0 < t <= latest,
\* RollbackToVersion(t) succeeds, afterwards s/latest and
\* LastCommitID().Version are t, and the CommitInfo at s/<t> is the one
\* stored there before (read as: same version, same CommitID for every
\* store).
C4_Original ==
  [][(ret'.op = "RollbackToVersion" /\ 0 < ret'.arg /\ ret'.arg <= GetLatestVersion(db)) =>
       /\ ret'.ok
       /\ GetLatestVersion(db') = ret'.arg
       /\ LastCommitID(Self)'.version = ret'.arg
       /\ getCommitInfo(db, ret'.arg).ok
       /\ getCommitInfo(db', ret'.arg).ok
       /\ SameCommitIDs(getCommitInfo(db', ret'.arg).cInfo, getCommitInfo(db, ret'.arg).cInfo)]_vars

\* C4: for every target t with 0 < t <= latest that every versioned
\* sub-store still holds, RollbackToVersion(t) succeeds, afterwards s/latest
\* and LastCommitID().Version are t, and the CommitInfo at s/<t> has the
\* version, the CommitID of every store and so the root hash of the one
\* stored there before; its StoreInfos may be listed in another order.
C4_Rollback ==
  [][(/\ ret'.op = "RollbackToVersion"
      /\ 0 < ret'.arg
      /\ ret'.arg <= GetLatestVersion(db)
      /\ \A n \in DOMAIN stores :
           stores[n].typ = StoreTypeIAVL => ret'.arg \in DOMAIN db.trees[n]) =>
       /\ ret'.ok
       /\ GetLatestVersion(db') = ret'.arg
       /\ LastCommitID(Self)'.version = ret'.arg
       /\ getCommitInfo(db, ret'.arg).ok
       /\ getCommitInfo(db', ret'.arg).ok
       /\ SameCommitIDs(getCommitInfo(db', ret'.arg).cInfo, getCommitInfo(db, ret'.arg).cInfo)
       /\ Hash(getCommitInfo(db', ret'.arg).cInfo) = Hash(getCommitInfo(db, ret'.arg).cInfo)]_vars

\* C4 witness: a rollback from version 3 to version 1 has succeeded.
C4_Witness ==
  /\ ret.op = "RollbackToVersion"
  /\ ret.ok
  /\ ret.arg = 1
  /\ db.latest = 1
  /\ DOMAIN db.trees["a"] = {1}
  /\ 3 \in DOMAIN db.commitInfo
  /\ db.commitInfo[1].storeInfos[1].commitId.hash = TreeHash(Tree1)

\* C5 as stated: in every Commit with Interval > 0, with previousHeight the
\* version committed before the call, pruneHeight = previousHeight -
\* KeepRecent is appended to the pending list iff KeepRecent < previousHeight
\* and (KeepEvery = 0 or pruneHeight mod KeepEvery # 0); otherwise nothing is.
C5_Original ==
  [][(ret'.op = "Commit" /\ pruningOpts.Interval > 0) =>
       LET previousHeight == GetVersion(lastCommitInfo)
           pruneHeight == previousHeight - pruningOpts.KeepRecent
       IN ret'.scheduled =
            IF /\ pruningOpts.KeepRecent < previousHeight
               /\ (pruningOpts.KeepEvery = 0 \/ pruneHeight % pruningOpts.KeepEvery # 0)
            THEN Append(pruneHeights, pruneHeight)
            ELSE pruneHeights]_vars

\* C5: in every Commit(true) with Interval > 0, with previousHeight the
\* version committed before the call, pruneHeight = previousHeight -
\* KeepRecent is appended to the pending list iff KeepRecent < previousHeight
\* and (KeepEvery = 0 or pruneHeight mod KeepEvery # 0); otherwise, and in
\* every Commit(false), nothing is appended.
C5_Scheduled ==
  [][(ret'.op = "Commit" /\ pruningOpts.Interval > 0) =>
       LET previousHeight == GetVersion(lastCommitInfo)
           pruneHeight == previousHeight - pruningOpts.KeepRecent
       IN ret'.scheduled =
            IF /\ ret'.bump
               /\ pruningOpts.KeepRecent < previousHeight
               /\ (pruningOpts.KeepEvery = 0 \/ pruneHeight % pruningOpts.KeepEvery # 0)
            THEN Append(pruneHeights, pruneHeight)
            ELSE pruneHeights]_vars

\* C5 witness: under {KeepRecent: 1, Interval: 2, KeepEvery: 0} the commit of
\* version 4 has scheduled height 2 after height 1.
C5_Witness ==
  /\ ret.op = "Commit"
  /\ ret.bump
  /\ pruningOpts = Prune12
  /\ ret.id.version = 4
  /\ ret.scheduled = << 1, 2 >>

\* C6 as stated: with Interval > 0, a Commit whose version is a multiple of
\* Interval deletes every pending height from every versioned sub-store,
\* sets earliestVersion to the largest of them and leaves the pending list
\* empty in memory and in s/pruneheights; a Commit at any other version
\* deletes no version.
C6_Original ==
  [][(ret'.op = "Commit" /\ pruningOpts.Interval > 0) =>
       IF ret'.id.version % pruningOpts.Interval = 0
       THEN /\ \A n \in DOMAIN stores : stores[n].typ = StoreTypeIAVL =>
                 \A h \in Range(ret'.scheduled) : h \notin DOMAIN db'.trees[n]
            /\ ret'.scheduled # << >> => earliestVersion' = MaxOf(Range(ret'.scheduled))
            /\ pruneHeights' = << >>
            /\ db'.pruneHeights = << >>
       ELSE \A n \in DOMAIN db.trees : DOMAIN db.trees[n] \subseteq DOMAIN db'.trees[n]]_vars

\* C6 as the code has it: the same, with earliestVersion set to the height
\* that is last in the pending list.
C6_LastPending ==
  [][(ret'.op = "Commit" /\ pruningOpts.Interval > 0) =>
       IF ret'.id.version % pruningOpts.Interval = 0
       THEN /\ \A n \in DOMAIN stores : stores[n].typ = StoreTypeIAVL =>
                 \A h \in Range(ret'.scheduled) : h \notin DOMAIN db'.trees[n]
            /\ ret'.scheduled # << >> =>
                 earliestVersion' = ret'.scheduled[Len(ret'.scheduled)]
            /\ pruneHeights' = << >>
            /\ db'.pruneHeights = << >>
       ELSE \A n \in DOMAIN db.trees : DOMAIN db.trees[n] \subseteq DOMAIN db'.trees[n]]_vars

\* C6 witness: under {KeepRecent: 1, Interval: 2, KeepEvery: 0} the commit of
\* version 4 has deleted versions 1 and 2 and set earliestVersion to 2.
C6_Witness ==
  /\ ret.op = "Commit"
  /\ pruningOpts = Prune12
  /\ ret.id.version = 4
  /\ ret.scheduled = << 1, 2 >>
  /\ DOMAIN db.trees["a"] = {3, 4}
  /\ earliestVersion = 2
  /\ pruneHeights = << >>

\* C7 as stated: earliestVersion is at least every version that has been
\* pruned, and the latest committed version is at least earliestVersion.
C7_Original ==
  /\ \A v \in prunedVersions : earliestVersion >= v
  /\ LastCommitID(Self).version >= earliestVersion
  /\ GetLatestVersion(db) >= earliestVersion

\* C8 as stated: on a store whose last committed version is 0, Commit returns
\* 1 when initialVersion is 0 and N when initialVersion is N >= 1, for
\* either value of bumpVersion.
C8_Original ==
  [][(ret'.op = "Commit" /\ GetVersion(lastCommitInfo) = 0) =>
       ret'.id.version = IF initialVersion = 0 THEN 1 ELSE initialVersion]_vars

\* C8: on a store whose last committed version is 0, Commit(true) returns 1
\* when initialVersion is 0 or 1 and N when initialVersion is N > 1;
\* Commit(false) returns N when initialVersion is N > 1 and 0 otherwise.
C8_FirstCommit ==
  [][(ret'.op = "Commit" /\ GetVersion(lastCommitInfo) = 0) =>
       ret'.id.version = IF initialVersion > 1 THEN initialVersion
                         ELSE IF ret'.bump THEN 1 ELSE 0]_vars

\* C8 witness: the first commit of a store with initialVersion 2 returned 2.
C8_Witness ==
  /\ ret.op = "Commit"
  /\ "a" \in DOMAIN stores
  /\ initialVersion = 2
  /\ ret.id.version = 2
  /\ DOMAIN db.commitInfo = {2}

\* C9: LoadVersion(v) that succeeds, followed at once by Commit(false),
\* returns version v and the root hash of the CommitInfo stored at s/<v>,
\* and the CommitInfo at s/<v> afterwards still has that root hash.
C9_ReloadRecommit ==
  [][(ret.op = "LoadVersion" /\ ret.ok /\ ret'.op = "Commit" /\ ~ret'.bump) =>
       /\ ret'.id.version = ret.arg
       /\ ret'.id.hash = Hash(getCommitInfo(db, ret.arg).cInfo)
       /\ getCommitInfo(db', ret.arg).ok
       /\ Hash(getCommitInfo(db', ret.arg).cInfo) = Hash(getCommitInfo(db, ret.arg).cInfo)]_vars

\* C9 witness: version 1 was loaded and committed again while s/2 holds
\* another root.
C9_Witness ==
  /\ ret.op = "Commit"
  /\ ~ret.bump
  /\ ret.afterLoad = 1
  /\ 2 \in DOMAIN db.commitInfo
  /\ Hash(db.commitInfo[2]) # ret.id.hash

\* The peer is as constructed: nothing committed, nothing restored.
PeerEmpty == peer = Constructed(storesParams, pruningOpts)

NamePos(n) == CHOOSE i \in 1..Len(NameOrder) : NameOrder[i] = n

\* C11: Snapshot(height) emits the store segments in strictly ascending
\* order of store name, each segment one StoreItem followed by all of that
\* store's NodeItems in the exporter's order, and the stream is the same
\* whatever order the sub-store map is ranged over in.
C11_SnapshotSorted ==
  [][ret'.op = "Snapshot" =>
       LET items == stream'.items
           h == ret'.arg
           at == { p \in 1..Len(items) : items[p].kind = "store" }
       IN /\ \A p, q \in at : p < q => NamePos(items[p].name) < NamePos(items[q].name)
          /\ Len(items) > 0 => 1 \in at
          /\ \A p \in at :
               LET tree == db.trees[items[p].name][h]
               IN /\ p + Len(tree) <= Len(items)
                  /\ \A k \in 1..Len(tree) : items[p + k] = SnapshotIAVLItem(tree[k])
                  /\ p + Len(tree) < Len(items) => (p + Len(tree) + 1) \in at
          /\ stream'.ok =>
               { items[p].name : p \in at } =
                 { n \in DOMAIN stores : stores[n].typ = StoreTypeIAVL }
          /\ \A o \in IterOrders(DOMAIN stores) : Snapshot(Self, h, o) = stream']_vars

\* C11 witness: a snapshot of version 2 wrote the segment of a, with its
\* three nodes, before the segment of b.
C11_Witness ==
  /\ ret.op = "Snapshot"
  /\ stream.ok
  /\ stream.height = 2
  /\ Len(stream.items) = 8
  /\ stream.items[1].kind = "store" /\ stream.items[1].name = "a"
  /\ stream.items[5].kind = "store" /\ stream.items[5].name = "b"
  /\ stream.items[6].kind = "iavl"

\* C12: Set and Delete on the sub-stores of a branch B = CacheMultiStore(),
\* and dropping B, leave every read on the parent's sub-stores as it was;
\* B reads its own writes; after B.Write() every read on the parent returns
\* what the same read on B returned before it.
C12_BranchIsolated ==
  [][/\ ret'.op \in {"CacheMultiStore", "BranchSet", "BranchDelete", "BranchDiscard"} =>
          /\ stores' = stores
          /\ db' = db
          /\ lastCommitInfo' = lastCommitInfo
     /\ ret'.op = "BranchSet" =>
          \E n \in DOMAIN stores, k \in Keys :
             /\ branch'.cache[n][k] # branch.cache[n][k]
             /\ BranchGet(branch', Self, n, k) = Value1
     /\ ret'.op = "BranchDelete" =>
          \E n \in DOMAIN stores, k \in Keys :
             /\ branch'.cache[n][k] # branch.cache[n][k]
             /\ BranchGet(branch', Self, n, k) = NilBytes
     /\ ret'.op = "BranchWrite" =>
          \A n \in DOMAIN stores, k \in Keys :
             KVGet(stores'[n].work, k) = BranchGet(branch, Self, n, k)]_vars

\* C12 witness: a Write has merged two buffered entries, a Set on the
\* versioned store and a Delete on the memory store, into the parent.
C12_Witness ==
  /\ ret.op = "BranchWrite"
  /\ ret.arg = 2
  /\ branch.open
  /\ KVGet(stores["a"].work, "k1") = Value1
  /\ KVGet(stores["a"].saved, "k1") = NilBytes
  /\ KVGet(stores["m"].work, "k1") = NilBytes
  /\ KVGet(stores["t"].work, "k1") = Value1

\* C13: a Query that runs while a Commit is under way reads lastCommitInfo
\* as the complete CommitInfo of before the Commit or the complete one the
\* Commit builds; and a proving query that returns a result takes the
\* aggregation proof from a CommitInfo of the version its sub-store proof
\* was taken at.
C13_QueryAtomic ==
  [][/\ ret'.op = "Query" =>
          /\ conc'.seen \in (IF conc.commit.active
                             THEN {conc.commit.old, conc.commit.new}
                             ELSE {lastCommitInfo})
          /\ ret'.ok => conc'.used.version = ret'.arg
          /\ ret'.ok => ret'.id.version = ret'.arg
     /\ ret'.op = "CommitPublish" => lastCommitInfo' = conc.commit.new
     /\ conc.commit.active =>
          lastCommitInfo' \in {conc.commit.old, conc.commit.new}]_vars

\* C13 witness: a proving query has returned a result while a Commit had
\* committed one of two sub-stores, with the CommitInfo of before the Commit.
C13_Witness ==
  /\ ret.op = "Query"
  /\ ret.ok
  /\ conc.commit.active
  /\ conc.commit.phase = "stores"
  /\ conc.commit.idx = 1
  /\ conc.seen = conc.commit.old
  /\ conc.seen # conc.commit.new
  /\ ret.arg = 1

\* The names a CommitInfo has a StoreInfo for.
InfoNames(cInfo) == { cInfo.storeInfos[i].name : i \in 1..Len(cInfo.storeInfos) }

\* Every CommitInfo the instance rs holds, published or persisted.
InfosOf(rs) ==
  {rs.lastCommitInfo} \cup { rs.db.commitInfo[v] : v \in DOMAIN rs.db.commitInfo }

\* The loaded sub-stores of the given types.
StoresOfType(types) == { n \in DOMAIN stores : stores[n].typ \in types }

\* C14 as stated: no CommitInfo holds a StoreInfo for a transient or a
\* memory sub-store.
C14_Original ==
  \A c \in InfosOf(Self) \cup InfosOf(peer) :
     InfoNames(c) \cap StoresOfType({StoreTypeTransient, StoreTypeMemory}) = {}

\* C14: no CommitInfo built by Commit, RollbackToVersion or Restore holds a
\* StoreInfo for a transient sub-store, and each of them holds one for every
\* other sub-store, a memory sub-store included, with an empty CommitID;
\* every Commit calls Commit once on every sub-store; Snapshot emits no
\* StoreItem for a transient or a memory sub-store.
C14_KindsInCommitInfo ==
  [][/\ \A c \in InfosOf(Self)' \cup InfosOf(peer)' :
          InfoNames(c) \cap StoresOfType({StoreTypeTransient}) = {}
     /\ (ret'.op = "Commit" \/ (ret'.op = "RollbackToVersion" /\ ret'.ok)) =>
          /\ InfoNames(lastCommitInfo') = StoresOfType({StoreTypeIAVL, StoreTypeMemory})
          /\ lastCommitInfo' \in InfosOf([db |-> db', lastCommitInfo |-> NoInfo])
          /\ \A i \in 1..Len(lastCommitInfo'.storeInfos) :
                stores[lastCommitInfo'.storeInfos[i].name].typ = StoreTypeMemory =>
                   lastCommitInfo'.storeInfos[i].commitId = EmptyCommitID
     /\ (ret'.op = "Restore" /\ ret'.ok) =>
          /\ InfoNames(peer'.lastCommitInfo) = StoresOfType({StoreTypeIAVL, StoreTypeMemory})
          /\ peer'.lastCommitInfo \in InfosOf([db |-> peer'.db, lastCommitInfo |-> NoInfo])
     /\ ret'.op = "Commit" => \A n \in DOMAIN stores : ret'.calls[n] = 1
     /\ ret'.op = "Snapshot" =>
          \A i \in 1..Len(stream'.items) :
             stream'.items[i].kind = "store" =>
                stores[stream'.items[i].name].typ = StoreTypeIAVL]_vars

\* C14 witness: after two commits and a rollback to version 1 the snapshot
\* of version 1 was restored into the peer, whose CommitInfo lists the
\* versioned and the memory sub-store.
C14_Witness ==
  /\ ret.op = "Restore"
  /\ ret.ok
  /\ LastCommitID(Self).version = 1
  /\ 2 \in DOMAIN db.commitInfo
  /\ stores["a"].saved = Tree1
  /\ InfoNames(lastCommitInfo) = {"a", "m"}
  /\ InfoNames(peer.lastCommitInfo) = {"a", "m"}
  /\ peer.stores["a"].saved = Tree1
  /\ stream.ok

\* The tree the store `name` held at the version ver, by the record s/<ver>.
HeldAt(name, ver) ==
  LET id == IF ver = 0 THEN EmptyCommitID ELSE getCommitID(db.commitInfo[ver], name)
  IN iavlLoadStore(db.trees[name], id, 0).store.saved

C16_BranchAtVersion ==
  [][/\ ret'.op = "CacheMultiStoreWithVersion" =>
          /\ ret'.ok = (\A n \in StoresOfType({StoreTypeIAVL}) : ret'.arg \in DOMAIN db.trees[n])
          /\ ~ret'.ok => ~branch'.open
          /\ ret'.ok => branch'.open /\ branch'.version = ret'.arg
     /\ (branch'.open /\ branch'.version # 0) =>
          \A n \in DOMAIN stores', k \in Keys :
             branch'.cache[n][k] = NoWrite =>
                BranchGet(branch', Self', n, k) =
                   IF stores'[n].typ = StoreTypeIAVL
                   THEN IF branch'.version \in DOMAIN db'.trees[n]
                        THEN KVGet(db'.trees[n][branch'.version], k)
                        ELSE BranchGet(branch, Self, n, k)
                   ELSE KVGet(stores'[n].work, k)]_vars

\* C16 witness: a branch at version 1, where the versioned store holds the
\* key, is open while the parent has deleted the key and committed version 2.
C16_Witness ==
  /\ branch.open
  /\ branch.version = 1
  /\ ret.op = "Commit"
  /\ ret.id.version = 2
  /\ stores["a"].saved = EmptyTree
  /\ BranchGet(branch, Self, "a", "k1") = Value1
  /\ KVGet(stores["a"].work, "k1") = NilBytes

\* C17: RollbackToVersion(target) with target <= 0 returns an error and
\* changes nothing: the sub-stores and their saved versions, lastCommitInfo,
\* s/latest, the s/<v> records and the pending prune list are as before.
C17_RollbackInvalid ==
  [][ret'.op = "RollbackToVersion" /\ ret'.arg <= 0 =>
       /\ ~ret'.ok
       /\ UNCHANGED << db, lastCommitInfo, pruningOpts, storesParams, stores,
                       pruneHeights, initialVersion, earliestVersion >>]_vars

\* C17 witness: RollbackToVersion(-1) was refused at version 2 with an
\* uncommitted write in the versioned store.
C17_Witness ==
  /\ ret.op = "RollbackToVersion"
  /\ ret.arg = -1
  /\ ~ret.ok
  /\ LastCommitID(Self).version = 2
  /\ GetLatestVersion(db) = 2
  /\ stores["a"].work # stores["a"].saved

\* C18: LoadVersion(v) with v # 0 returns an error when the record s/<v> is
\* missing or cannot be decoded, and then the loaded sub-stores,
\* lastCommitInfo, the pending prune list and the DB are as before;
\* LoadVersion(0) succeeds with an empty CommitInfo whatever is at s/0.
C18_LoadMissing ==
  [][ret'.op = "LoadVersion" =>
       /\ (ret'.arg # 0 /\ (ret'.arg \notin DOMAIN db.commitInfo
                            \/ db.commitInfo[ret'.arg] = Malformed)) =>
             /\ ~ret'.ok
             /\ UNCHANGED << db, lastCommitInfo, storesParams, stores, pruneHeights >>
       /\ ret'.arg = 0 => ret'.ok /\ lastCommitInfo' = EmptyCommitInfo]_vars

\* C18 witness: LoadVersion(1) was refused at version 2 because the record
\* s/1 is damaged, with an uncommitted write in the versioned store.
C18_Witness ==
  /\ ret.op = "LoadVersion"
  /\ ret.arg = 1
  /\ ~ret.ok
  /\ 1 \in DOMAIN db.commitInfo
  /\ db.commitInfo[1] = Malformed
  /\ LastCommitID(Self).version = 2
  /\ stores["a"].work # stores["a"].saved

\* The places of the records of items that are neither StoreItem nor NodeItem.
OtherItems(items) == { i \in 1..Len(items) : items[i].kind \notin {"store", "iavl"} }

\* The record at place i of items is a StoreItem that names a store which
\* is not a mounted versioned store of rs, and Restore reads as far as it.
BadStoreAt(rs, items, i) ==
  /\ items[i].kind = "store"
  /\ \/ items[i].name \notin DOMAIN rs.stores
     \/ rs.stores[items[i].name].typ # StoreTypeIAVL
  /\ \A j \in 1..(i - 1) : j \notin OtherItems(items)

\* The metadata of the instance to is that of from.
SameMetadata(from, to) ==
  /\ to.db.latest = from.db.latest
  /\ to.db.commitInfo = from.db.commitInfo
  /\ to.db.pruneHeights = from.db.pruneHeights
  /\ to.lastCommitInfo = from.lastCommitInfo

\* C19: Restore fails when a NodeItem is read before any StoreItem, and then
\* the instance is as before; it fails when a StoreItem names a store that
\* is not a mounted versioned store, and then no saved version and no loaded
\* store changes but those of stores named by earlier StoreItems; in both
\* cases s/latest and s/<height> are not written.
C19_RestoreRejects ==
  [][ret'.op = "Restore" =>
       /\ (stream.items # << >> /\ stream.items[1].kind = "iavl") =>
             ~ret'.ok /\ peer' = peer
       /\ \A i \in 1..Len(stream.items) :
             BadStoreAt(peer, stream.items, i) =>
                /\ ~ret'.ok
                /\ ret'.read <= i
                /\ SameMetadata(peer, peer')
                /\ \A n \in DOMAIN peer.db.trees :
                      n \notin { stream.items[j].name : j \in 1..(i - 1) } =>
                         /\ peer'.db.trees[n] = peer.db.trees[n]
                         /\ n \in DOMAIN peer.stores => peer'.stores[n] = peer.stores[n]]_vars

\* C19 witness: Restore(2) has failed at the third record, a StoreItem that
\* names the transient store; the store named before it holds its node and
\* no metadata is written.
C19_Witness ==
  /\ ret.op = "Restore"
  /\ ~ret.ok
  /\ ret.arg = 2
  /\ ret.read = 3
  /\ stream.items = << SnapshotStoreItem("a"), NodeItem1, SnapshotStoreItem("t"), NodeItem1 >>
  /\ peer.db.trees["a"] = (2 :> << ImportNode(NodeItem1) >>)
  /\ peer.stores["t"].work = EmptyTree
  /\ peer.db.commitInfo = EmptyFn
  /\ peer.db.latest = NoKey

\* C20: a Restore that returns without error has read up to and including
\* the first record that is neither a StoreItem nor a NodeItem, returns that
\* record, and has committed the importer that was open, so that the store
\* named last holds the nodes read for it as version height; when there is
\* no such record it has read every record and returns the zero record.
\* No Restore reads past the first such record.
C20_RestoreStops ==
  [][ret'.op = "Restore" =>
       LET items == stream.items
           stop == IF OtherItems(items) = {} THEN Len(items) + 1 ELSE MinOf(OtherItems(items))
           named == { i \in 1..(stop - 1) : items[i].kind = "store" }
       IN /\ ret'.read <= MinOf({stop, Len(items)})
          /\ ret'.ok =>
               /\ ret'.read = MinOf({stop, Len(items)})
               /\ ret'.item = IF stop <= Len(items) THEN items[stop] ELSE ZeroItem
               /\ named # {} =>
                    LET s == MaxOf(named)
                        nodes == [j \in 1..(stop - 1 - s) |-> ImportNode(items[s + j])]
                    IN /\ peer'.db.trees[items[s].name][ret'.arg] = nodes
                       /\ peer'.stores[items[s].name].saved = nodes
                       /\ peer'.stores[items[s].name].last = ret'.arg]_vars

\* C20 witness: Restore(1) has stopped at the third of five records, an
\* extension record, and returned it; the store named before it holds its
\* node, the store named after it holds nothing.
C20_Witness ==
  /\ ret.op = "Restore"
  /\ ret.ok
  /\ ret.arg = 1
  /\ ret.read = 3
  /\ ret.item = ExtensionItem
  /\ Len(stream.items) = 5
  /\ peer.stores["a"].saved = << ImportNode(NodeItem1) >>
  /\ peer.db.trees["b"] = EmptyFn
  /\ LastCommitID(peer).version = 1

\* C21: Snapshot(height) returns an error when height is 0 or above the
\* latest committed version, and then it writes no record to the stream; an
\* exporter is opened only right before the StoreItem of its store is
\* written, so none is opened.
C21_SnapshotHeight ==
  [][(ret'.op = "Snapshot" /\ (ret'.arg = 0 \/ ret'.arg > LastCommitID(Self).version)) =>
       /\ ~ret'.ok
       /\ ~stream'.ok
       /\ stream'.items = << >>]_vars

\* C21 witness: after versions 1 and 2 were committed and version 1 loaded,
\* Snapshot(2) was refused although the versioned store holds version 2.
C21_Witness ==
  /\ ret.op = "Snapshot"
  /\ ~ret.ok
  /\ ret.arg = 2
  /\ LastCommitID(Self).version = 1
  /\ 2 \in DOMAIN db.trees["a"]
  /\ stream.items = << >>

\* C22: MountStoreWithDB fails when the key is nil, when the key is mounted
\* already and when another key of the same name is mounted, and a failed
\* mount leaves storesParams and keysByName as they were; a mount that does
\* not fail enters the key in both.  So the keys of keysByName are the keys
\* of storesParams, each under its own name, and no two mounted keys share
\* a name.
C22_MountRegistries ==
  [][/\ ret'.op = "Mount" =>
          LET fails == \/ ret'.arg = NilKey.id
                       \/ \E k \in DOMAIN registry.storesParams :
                             k.id = ret'.arg \/ \E k2 \in StoreKeys :
                                                   k2.id = ret'.arg /\ k2.name = k.name
          IN /\ ret'.ok = ~fails
             /\ ~ret'.ok => registry' = registry
             /\ ret'.ok =>
                  /\ Cardinality(DOMAIN registry'.storesParams) =
                        Cardinality(DOMAIN registry.storesParams) + 1
                  /\ \E k \in DOMAIN registry'.storesParams : k.id = ret'.arg
                  /\ \A k \in DOMAIN registry.storesParams :
                        /\ k \in DOMAIN registry'.storesParams
                        /\ registry'.storesParams[k] = registry.storesParams[k]
     /\ { registry'.keysByName[n] : n \in DOMAIN registry'.keysByName } =
           DOMAIN registry'.storesParams
     /\ \A n \in DOMAIN registry'.keysByName : registry'.keysByName[n].name = n
     /\ \A k1, k2 \in DOMAIN registry'.storesParams : k1.name = k2.name => k1 = k2]_vars

\* C22 witness: with the keys 1 (named a) and 2 (named b) mounted, the
\* mount of key 3, another key named a, has failed.
C22_Witness ==
  /\ ret.op = "Mount"
  /\ ~ret.ok
  /\ ret.arg = 3
  /\ { k.id : k \in DOMAIN registry.storesParams } = {1, 2}
  /\ registry.keysByName["a"].id = 1

\* C23: a Query whose path does not begin with "/" answers with the code
\* "unknown request", and so does a Query whose path names a store that is
\* not mounted (the path /proofs names no store and is answered by
\* doProofsQuery); in both cases no sub-store is queried and the state of
\* the Store is as before.
C23_QueryPath ==
  [][ret'.op = "QueryPath" =>
       LET path == ret'.path
           noSlash == path = << >> \/ path[1] # Slash
           name == IF Len(path) < 2 \/ path[2] = Slash THEN "" ELSE path[2]
       IN /\ UNCHANGED << db, lastCommitInfo, pruningOpts, storesParams, stores,
                          pruneHeights, initialVersion, earliestVersion >>
          /\ noSlash =>
                /\ ret'.code = ErrUnknownRequest
                /\ \A n \in DOMAIN stores : ret'.calls[n] = 0
          /\ (~noSlash /\ name # proofsPath /\ name \notin DOMAIN storesParams) =>
                /\ ret'.code = ErrUnknownRequest
                /\ \A n \in DOMAIN stores : ret'.calls[n] = 0
          /\ (~noSlash /\ name \in DOMAIN stores /\ stores[name].typ = StoreTypeIAVL) =>
                ret'.calls[name] = 1]_vars

\* C23 witness: at version 2 the proving query for a/key, a path without
\* the leading "/", was answered with "unknown request", the store a being
\* mounted and holding version 2.
C23_Witness ==
  /\ ret.op = "QueryPath"
  /\ ret.path = << "a", Slash, "key" >>
  /\ ret.code = ErrUnknownRequest
  /\ ret.bump
  /\ ret.arg = 2
  /\ ret.calls["a"] = 0
  /\ LastCommitID(Self).version = 2

\* The store names of a CommitInfo in the order it lists them.
InfoOrder(cInfo) == [i \in 1..Len(cInfo.storeInfos) |-> cInfo.storeInfos[i].name]

\* The names are listed in ascending order.
SortedByName(names) ==
  \A i, j \in 1..Len(names) : i < j => NamePos(names[i]) < NamePos(names[j])

\* The stores of order that are not transient, in that order.
Listed(order) == SelectSeq(order, LAMBDA n : stores[n].typ # StoreTypeTransient)

\* C24 as stated: every CommitInfo persisted at s/<v> lists its StoreInfos
\* in ascending order of the store names.
C24_Original ==
  \A c \in InfosOf(Self) \cup InfosOf(peer) : SortedByName(InfoOrder(c))

\* C24: the CommitInfo that Restore persists at s/<height> lists its
\* StoreInfos in ascending order of the store names; the one that Commit and
\* RollbackToVersion persist lists them in the order in which the sub-store
\* map was ranged over, each store that is not transient once.
C24_PersistedOrder ==
  [][/\ (ret'.op = "Restore" /\ ret'.ok) =>
          /\ SortedByName(InfoOrder(peer'.db.commitInfo[ret'.arg]))
          /\ SortedByName(InfoOrder(peer'.lastCommitInfo))
     /\ ret'.op = "Commit" =>
          /\ db'.commitInfo[ret'.id.version] = lastCommitInfo'
          /\ \A o \in IterOrders(DOMAIN stores) :
                InfoOrder(Commit(Self, ret'.bump, o).rs.db.commitInfo[ret'.id.version]) = Listed(o)
     /\ (ret'.op = "RollbackToVersion" /\ ret'.ok) =>
          /\ db'.commitInfo[ret'.arg] = lastCommitInfo'
          /\ \A o, c \in IterOrders(DOMAIN stores) :
                RollbackToVersion(Self, ret'.arg, o, c).ok =>
                   InfoOrder(RollbackToVersion(Self, ret'.arg, o, c).rs.db.commitInfo[ret'.arg])
                      = Listed(c)]_vars

\* C24 witness: the record s/1 lists the memory store before the versioned
\* store a, as Commit ranged over them, and the record the peer restored
\* at s/1 lists a before m.
C24_Witness ==
  /\ ret.op = "Restore"
  /\ ret.ok
  /\ ret.arg = 1
  /\ 1 \in DOMAIN db.commitInfo
  /\ InfoOrder(db.commitInfo[1]) = << "m", "a" >>
  /\ InfoOrder(peer.db.commitInfo[1]) = << "a", "m" >>

\* The versioned sub-stores that are mounted.
Versioned == { n \in DOMAIN stores : stores[n].typ = StoreTypeIAVL }

\* C25 as stated: PruneStores deletes every height of the list it is handed
\* from each versioned sub-store, whatever the pending list holds; with
\* clearStorePruningHeights it deletes the pending heights too and empties
\* the pending list, and without it the pending list is left as it was.
C25_Original ==
  [][ret'.op = "PruneStores" =>
       /\ \A n \in Versioned, h \in Range(ret'.scheduled) : h \notin DOMAIN db'.trees[n]
       /\ IF ret'.bump
          THEN /\ \A n \in Versioned, h \in Range(pruneHeights) : h \notin DOMAIN db'.trees[n]
               /\ pruneHeights' = << >>
          ELSE pruneHeights' = pruneHeights]_vars

\* C25 as the code has it: the same when the pending list is not empty; when
\* it is empty PruneStores returns at once and deletes nothing, whatever
\* list it is handed.
C25_PendingGuard ==
  [][ret'.op = "PruneStores" =>
       IF pruneHeights = << >>
       THEN /\ db' = db
            /\ pruneHeights' = << >>
            /\ earliestVersion' = earliestVersion
       ELSE /\ \A n \in Versioned, h \in Range(ret'.scheduled) : h \notin DOMAIN db'.trees[n]
            /\ IF ret'.bump
               THEN /\ \A n \in Versioned, h \in Range(pruneHeights) :
                         h \notin DOMAIN db'.trees[n]
                    /\ pruneHeights' = << >>
               ELSE /\ pruneHeights' = pruneHeights
                    /\ \A n \in Versioned :
                         DOMAIN db'.trees[n] = DOMAIN db.trees[n] \ Range(ret'.scheduled)]_vars

\* C25 witness: PruneStores(false, [2]) has returned with the pending list
\* empty, and version 2 of the versioned store is still saved.
C25_Witness ==
  /\ ret.op = "PruneStores"
  /\ ~ret.bump
  /\ ret.scheduled = << 2 >>
  /\ pruneHeights = << >>
  /\ 2 \in DOMAIN db.trees["a"]

\* The CommitInfo is the one of the sub-store map: every versioned store of
\* the map is at the version the CommitInfo lists for it, and at its hash
\* once a version has been committed.
Matches(info, map) ==
  \A n \in DOMAIN map :
     map[n].typ = StoreTypeIAVL =>
        /\ map[n].last = getCommitID(info, n).version
        /\ map[n].last > 0 => SubLastCommitID(map[n]) = getCommitID(info, n)

\* C26 as stated: LoadVersion publishes the sub-store map and lastCommitInfo
\* together, so that neither the store nor a reader of the two ever has the
\* new one of them with the old one of the other.
C26_Original ==
  /\ Matches(lastCommitInfo, stores)
  /\ conc.reader.reads = {"info", "stores"} => Matches(conc.reader.info, conc.reader.stores)

\* C26 as the code has it: loadVersion assigns lastCommitInfo and then the
\* sub-store map; between the two the store holds the new lastCommitInfo
\* with the old map, and at any other time the two belong together.  A reader
\* gets the two together when neither of its reads falls between the
\* assignments and neither assignment between its reads.
C26_TwoAssignments ==
  /\ conc.load.phase = "info" =>
       /\ lastCommitInfo = conc.load.new.info
       /\ stores = conc.load.old.stores
  /\ conc.load.phase # "info" => Matches(lastCommitInfo, stores)
  /\ (conc.reader.reads = {"info", "stores"} /\ ~conc.reader.apart) =>
       Matches(conc.reader.info, conc.reader.stores)

\* C26 witness: LoadVersion(1) has set lastCommitInfo and not yet the map,
\* and the reader has read the CommitInfo of version 1 and the sub-store map
\* of version 2.
C26_Witness ==
  /\ conc.load.phase = "info"
  /\ conc.load.ver = 1
  /\ conc.reader.reads = {"info", "stores"}
  /\ conc.reader.info = conc.load.new.info
  /\ conc.reader.stores = conc.load.old.stores
  /\ GetVersion(conc.reader.info) = 1
  /\ conc.reader.stores["a"].last = 2

\* C27 as stated: on a stream that holds no record Restore changes nothing:
\* no sub-store, and neither s/latest, the s/<v> records nor lastCommitInfo.
C27_Original ==
  [][(ret'.op = "Restore" /\ stream.items = << >>) => peer' = peer]_vars

\* C27: on a stream that holds no record Restore opens no importer and
\* leaves every sub-store as it was, and returns the zero record; it still
\* writes the CommitInfo built from the sub-stores' commit IDs at s/<height>
\* and height at s/latest, and reloads, so that lastCommitInfo is that
\* CommitInfo.
C27_EmptyStream ==
  [][(ret'.op = "Restore" /\ stream.items = << >>) =>
       /\ ret'.ok
       /\ ret'.read = 0
       /\ ret'.item = ZeroItem
       /\ peer'.db.trees = peer.db.trees
       /\ peer'.stores = peer.stores
       /\ peer'.db.latest = ret'.arg
       /\ peer'.db.commitInfo[ret'.arg] = buildCommitInfo(peer, ret'.arg)
       /\ \A v \in DOMAIN peer.db.commitInfo \ {ret'.arg} :
            peer'.db.commitInfo[v] = peer.db.commitInfo[v]
       /\ peer'.lastCommitInfo = buildCommitInfo(peer, ret'.arg)]_vars

\* C27 witness: Restore(2) has returned on the empty stream in a new peer,
\* whose s/latest is now 2 and whose s/2 lists both versioned stores.
C27_Witness ==
  /\ ret.op = "Restore"
  /\ ret.ok
  /\ ret.arg = 2
  /\ ret.read = 0
  /\ stream.items = << >>
  /\ peer.db.latest = 2
  /\ DOMAIN peer.db.commitInfo = {2}
  /\ InfoNames(peer.db.commitInfo[2]) = {"a", "b"}
  /\ GetVersion(peer.lastCommitInfo) = 2

\* C28: after LoadVersionAndUpgrade(v, upgrades) has succeeded every mounted
\* store that upgrades names as deleted holds no key, and every mounted
\* store that upgrades neither deletes nor renames holds what it held at
\* version v: a versioned store the tree saved at v, any other nothing.
C28_DeletedEmpty ==
  [][(ret'.op = "LoadVersionUpgrades" /\ ret'.ok) =>
       \A n \in DOMAIN stores' :
          /\ IsDeleted(ret'.upgrades, n) => Entries(stores'[n].work) = {}
          /\ (/\ ~IsDeleted(ret'.upgrades, n)
              /\ RenamedFrom(ret'.upgrades, n) = ""
              /\ n \notin { ret'.upgrades.renamed[m] : m \in DOMAIN ret'.upgrades.renamed }) =>
                stores'[n].work = IF stores'[n].typ = StoreTypeIAVL
                                  THEN HeldAt(n, ret'.arg) ELSE EmptyTree]_vars

\* C28 witness: version 1 was loaded with a deleted; a held the key k1 at
\* version 1 and holds nothing now, and b holds what it held at version 1.
C28_Witness ==
  /\ ret.op = "LoadVersionUpgrades"
  /\ ret.ok
  /\ ret.arg = 1
  /\ ret.upgrades.deleted = {"a"}
  /\ Entries(db.trees["a"][1]) = { << "k1", "v1" >> }
  /\ stores["a"].work = EmptyTree
  /\ stores["a"].saved = Tree1
  /\ Entries(stores["b"].work) = { << "k1", "v1" >> }

\* The NodeItems of a stream that names one store, and the nodes the store
\* named holds at the version `height` in the peer pr.
StreamNodes(items) == Tail(items)
Imported(pr, items, height) == pr.db.trees[items[1].name][height]

\* C29: every node that Restore passes to an importer has a key that is not
\* nil, and a value that is not nil when its height is 0: a nil key and the
\* nil value of a leaf are replaced by empty bytes, any other key or value
\* and the version are those of the NodeItem.
C29_NilToEmpty ==
  [][(ret'.op = "Restore" /\ ret'.ok /\ stream.items # << >>) =>
       LET from == StreamNodes(stream.items)
           nodes == Imported(peer', stream.items, ret'.arg)
       IN /\ Len(nodes) = Len(from)
          /\ \A i \in 1..Len(nodes) :
               /\ nodes[i].key # NilBytes
               /\ nodes[i].height = 0 => nodes[i].value # NilBytes
               /\ nodes[i].key = IF from[i].key = NilBytes THEN EmptyBytes ELSE from[i].key
               /\ nodes[i].value = IF nodes[i].height = 0 /\ from[i].value = NilBytes
                                   THEN EmptyBytes ELSE from[i].value
               /\ nodes[i].version = from[i].version]_vars

\* C29 witness: Restore(1) has imported a leaf and an inner node that came
\* without key and value: both have the empty key, the leaf the empty value
\* and the inner node no value.
C29_Witness ==
  /\ ret.op = "Restore"
  /\ ret.ok
  /\ Len(stream.items) = 2
  /\ stream.items[2].key = NilBytes
  /\ stream.items[2].value = NilBytes
  /\ stream.items[2].height = 1
  /\ stream.items[2].version = 2
  /\ peer.db.trees["a"][1] =
       << [key |-> EmptyBytes, value |-> NilBytes, height |-> 1, version |-> 2] >>

\* C30 as stated: a node that Restore passes to an importer has the height
\* of its NodeItem, and a NodeItem whose height is above 127 or below -128
\* makes Restore fail.
C30_Original ==
  [][(ret'.op = "Restore" /\ stream.items # << >>) =>
       LET from == StreamNodes(stream.items)
       IN /\ (\E i \in 1..Len(from) : from[i].height > 127 \/ from[i].height < -128) =>
               ~ret'.ok
          /\ ret'.ok =>
               \A i \in 1..Len(from) :
                  Imported(peer', stream.items, ret'.arg)[i].height = from[i].height]_vars

\* C30: a NodeItem whose height is above 127 makes Restore fail; a node
\* that Restore passes to an importer has the height of its NodeItem when
\* that is between -128 and 127, and a NodeItem whose height is below -128
\* is not rejected: its node has the height narrowed to 8 bits, 256 more
\* for the heights from -384 to -129.
C30_HeightNarrowed ==
  [][(ret'.op = "Restore" /\ stream.items # << >>) =>
       LET from == StreamNodes(stream.items)
       IN /\ (\E i \in 1..Len(from) : from[i].height > 127) => ~ret'.ok
          /\ PeerEmpty => ret'.ok = (\A i \in 1..Len(from) : from[i].height <= 127)
          /\ ret'.ok =>
               \A i \in 1..Len(from) :
                  Imported(peer', stream.items, ret'.arg)[i].height =
                     IF from[i].height >= -128 THEN from[i].height
                     ELSE from[i].height + 256]_vars

\* C30 witness: Restore(1) has imported the NodeItem of height -129 as a
\* node of height 127.
C30_Witness ==
  /\ ret.op = "Restore"
  /\ ret.ok
  /\ Len(stream.items) = 2
  /\ stream.items[2].height = -129
  /\ peer.db.trees["a"][1][1].height = 127

\* The versions the Commit that has just returned handed to DeleteVersions.
DeletedByCommit == Range(CommitPruned(Self, ret'.bump, SortByName(DOMAIN stores)))

\* C31 as stated: under Interval > 0 the Commit at version V deletes only
\* versions below V - KeepRecent, and every pending height is below the
\* latest committed version.
C31_Original ==
  [][/\ (ret'.op = "Commit" /\ pruningOpts.Interval > 0) =>
          \A d \in DeletedByCommit : d < ret'.id.version - pruningOpts.KeepRecent
     /\ \A i \in 1..Len(pruneHeights') :
          pruneHeights'[i] < LastCommitID(Self').version]_vars

\* C31 as the code has it: the height a Commit at version V schedules is
\* V - 1 - KeepRecent, and it deletes the pending heights and nothing else;
\* LoadVersion and RollbackToVersion to a version at or below a pending
\* height leave that height pending, so that a later Commit deletes it
\* whatever version it commits.
C31_PendingKept ==
  [][/\ (ret'.op = "Commit" /\ pruningOpts.Interval > 0) =>
          /\ \/ ret'.scheduled = pruneHeights
             \/ ret'.scheduled =
                  Append(pruneHeights, ret'.id.version - 1 - pruningOpts.KeepRecent)
          /\ DeletedByCommit \subseteq Range(ret'.scheduled)
          /\ ret'.id.version % pruningOpts.Interval = 0 =>
               DeletedByCommit = Range(ret'.scheduled)
     /\ (ret'.op \in {"LoadVersion", "RollbackToVersion"} /\ ret'.ok) =>
          /\ Range(pruneHeights) \subseteq Range(pruneHeights')
          /\ LastCommitID(Self').version = ret'.arg]_vars

\* C31 witness: under {KeepRecent: 1, Interval: 3} version 2 was loaded with
\* height 2 pending, and the Commit of version 3 has deleted versions 2 and 1.
C31_Witness ==
  /\ ret.op = "Commit"
  /\ pruningOpts = Prune13
  /\ ret.afterLoad = 2
  /\ ret.id.version = 3
  /\ ret.scheduled = << 2, 1 >>
  /\ 2 \notin DOMAIN db.trees["a"]
  /\ 1 \notin DOMAIN db.trees["a"]

\* The versioned stores that RollbackToVersion(target) reaches before the
\* first that does not hold target, the map ranged over in `order`.
ReachedBy(order, target) ==
  LET iavl == SelectSeq(order, LAMBDA n : stores[n].typ = StoreTypeIAVL)
      failing == { i \in 1..Len(iavl) : target \notin DOMAIN db.trees[iavl[i]] }
  IN IF failing = {} THEN Range(iavl) ELSE { iavl[i] : i \in 1..(MinOf(failing) - 1) }

\* C32 as stated: a RollbackToVersion that returns an error leaves every
\* sub-store, lastCommitInfo, s/latest and the s/<v> records as they were,
\* so that the sub-stores and lastCommitInfo agree on the latest version.
C32_Original ==
  [][(ret'.op = "RollbackToVersion" /\ ~ret'.ok) =>
       /\ stores' = stores
       /\ db' = db
       /\ lastCommitInfo' = lastCommitInfo
       /\ Matches(lastCommitInfo', stores')]_vars

\* C32 as the code has it: a RollbackToVersion that returns an error leaves
\* lastCommitInfo, s/latest, the s/<v> records and the pending list as they
\* were, but every versioned sub-store that the loop reached before the one
\* that failed stays rolled back: its versions above target are deleted and
\* it is at target.  Which ones those are depends on the order in which the
\* sub-store map is ranged over.
C32_RolledBackInPart ==
  [][ret'.op = "RollbackToVersion" =>
       \A o \in IterOrders(DOMAIN stores) :
          LET r == RollbackToVersion(Self, ret'.arg, o, SortByName(DOMAIN stores))
          IN ~r.ok =>
               /\ r.rs.lastCommitInfo = lastCommitInfo
               /\ r.rs.db.latest = db.latest
               /\ r.rs.db.commitInfo = db.commitInfo
               /\ r.rs.pruneHeights = pruneHeights
               /\ ret'.arg <= 0 => r.rs = Self
               /\ ret'.arg > 0 =>
                    \A n \in DOMAIN stores :
                       IF n \in ReachedBy(o, ret'.arg)
                       THEN /\ r.rs.stores[n].last = ret'.arg
                            /\ DOMAIN r.rs.db.trees[n] =
                                 { v \in DOMAIN db.trees[n] : v <= ret'.arg }
                       ELSE /\ r.rs.stores[n] = stores[n]
                            /\ r.rs.db.trees[n] = db.trees[n]]_vars

\* C32 witness: RollbackToVersion(2) has failed on the store b, added at
\* version 3, after the store a was rolled back: a is at version 2 and has
\* lost version 3, lastCommitInfo and s/latest are at version 3.
C32_Witness ==
  /\ ret.op = "RollbackToVersion"
  /\ ~ret.ok
  /\ ret.arg = 2
  /\ DOMAIN db.trees["a"] = {1, 2}
  /\ stores["a"].last = 2
  /\ DOMAIN db.trees["b"] = {3}
  /\ stores["b"].last = 3
  /\ GetVersion(lastCommitInfo) = 3
  /\ db.latest = 3
  /\ 3 \in DOMAIN db.commitInfo

\* The last call was a /proofs query at the version of lastCommitInfo.
ProofsQueryAtLatest ==
  /\ ret.op = "QueryPath"
  /\ ret.path = << Slash, proofsPath >>
  /\ ret.arg = GetVersion(lastCommitInfo)

\* C33 as stated: whenever lastCommitInfo is of version v > 0, s/<v> and
\* s/latest = v are written, and a /proofs query at v does not fail.
C33_Original ==
  GetVersion(lastCommitInfo) > 0 =>
    /\ GetVersion(lastCommitInfo) \in DOMAIN db.commitInfo
    /\ db.latest = GetVersion(lastCommitInfo)
    /\ doProofsQuery(Self, GetVersion(lastCommitInfo)).code = CodeOK
    /\ ProofsQueryAtLatest => ret.ok

\* C33 as the code has it: Commit publishes lastCommitInfo before its
\* deferred flushMetadata runs.  Between the two, when the Commit has bumped
\* the version, s/latest is below v, s/<v> is missing and a /proofs query at
\* v fails; when it has not, s/<v> still holds the CommitInfo before the
\* Commit.  Outside a Commit s/<v> is
\* the published CommitInfo, s/latest is v and a /proofs query at v answers
\* with its root.
C33_PublishedBeforeFlush ==
  LET v == GetVersion(lastCommitInfo)
      old == conc.commit.old
  IN v > 0 =>
       IF conc.commit.phase = "published"
       THEN /\ v = conc.commit.version
            /\ v > GetVersion(old) =>
                 /\ db.latest < v
                 /\ v \notin DOMAIN db.commitInfo
                 /\ doProofsQuery(Self, v).code = ErrInternal
                 /\ ProofsQueryAtLatest => ~ret.ok /\ ret.code = ErrInternal
            /\ v = GetVersion(old) =>
                 /\ db.latest = v
                 /\ getCommitInfo(db, v) = [ok |-> TRUE, cInfo |-> old]
                 /\ doProofsQuery(Self, v).root = Hash(old)
       ELSE /\ db.latest = v
            /\ getCommitInfo(db, v) = [ok |-> TRUE, cInfo |-> lastCommitInfo]
            /\ doProofsQuery(Self, v).code = CodeOK
            /\ doProofsQuery(Self, v).root = Hash(lastCommitInfo)
            /\ ProofsQueryAtLatest => ret.ok

\* C33 witness: the Commit of version 2 has published its CommitInfo and
\* has not returned; s/latest is 1, s/2 is missing, and a /proofs query at
\* height 2 has failed.
C33_Witness ==
  /\ conc.commit.phase = "published"
  /\ GetVersion(lastCommitInfo) = 2
  /\ db.latest = 1
  /\ 2 \notin DOMAIN db.commitInfo
  /\ ProofsQueryAtLatest
  /\ ~ret.ok
  /\ ret.code = ErrInternal

====
